---- MODULE Spec2Model ----
(***************************************************************************)
(* Model of the audit orchestration engine of backend/app: the audit       *)
(* record (AuditState), the audit store (AuditManager) and the runner      *)
(* (AuditRunner.run and the phases it awaits); and of the services around  *)
(* it: the sessions (SessionManager), the login contexts (BrowserManager)  *)
(* and the request handlers of main.py that use them.                      *)
(*                                                                         *)
(* Scheduling is cooperative (asyncio): the code between two suspension    *)
(* points runs without interruption, so every action below is the code     *)
(* from one await (the one that just resolved) to the next await (the one  *)
(* it issues).  The states of the model are the moments at which another   *)
(* task (a request handler, an event callback, a capture task) can run.    *)
(*                                                                         *)
(* Strings that the code parses (URLs) are sequences of tokens; a token    *)
(* stands for a run of characters without ':', '/', '?' or '#'.            *)
(***************************************************************************)
EXTENDS Integers, Sequences, FiniteSets, TLC

(***************************************************************************)
(* Bounds of the model                                                     *)
(***************************************************************************)
\* largest options.max_pages tried (the schema allows 1..100)
MaxPagesBound == 3
\* number of times the environment of one audit may leave the nominal run: an
\* event delivered to a listener, an operation of the browser or the network
\* that fails, an answer that is not that of a plain page (HTTP 200, content
\* without error phrase, frame captured, no header missing, no cookie issue,
\* no violation)
MaxIncidents == 1
\* number of request handlers and audit tasks in flight at once
MaxCalls == 1
\* settings.SESSION_TTL_MINUTES, a setting of the deployment (30 by default)
SessionTtl == 1
\* number of calls of start_cleanup_loop
MaxLoops == 2
\* number of calls of the login handlers for one session
MaxLoginCalls == 3
\* the instants of time.time() in one second
Second == 2
\* number of findings of each kind that an audit of the store collects
MaxFound == 2
\* number of calls of _capture_live_preview of one audit
MaxCaptures == 3
\* RateLimiter.requests_per_minute (settings.RATE_LIMIT_PER_MINUTE, 30 by default)
Limit == 2
\* the instants of the rate limiter's clock in one minute
Window == 2

(***************************************************************************)
(* URL strings and urllib.parse.urlparse                                   *)
(***************************************************************************)
Delims == {":", "/", "?", "#"}

\* index of the first element of s that is in S, Len(s)+1 when there is none
FirstIn(s, S) ==
    IF \E i \in 1..Len(s) : s[i] \in S
    THEN CHOOSE i \in 1..Len(s) : s[i] \in S /\ \A j \in 1..(i-1) : s[j] \notin S
    ELSE Len(s) + 1

StartsWith(s, p) == Len(s) >= Len(p) /\ SubSeq(s, 1, Len(p)) = p

\* tokens that do not begin with a letter (a scheme must begin with one)
DigitTokens == {"1"}

urlparse(u) ==
    LET c       == FirstIn(u, {":"})
        isSch   == /\ c > 1
                   /\ c <= Len(u)
                   /\ u[1] \notin DigitTokens
                   /\ \A j \in 1..(c-1) : u[j] \notin Delims
        scheme  == IF isSch THEN SubSeq(u, 1, c-1) ELSE <<>>
        r1      == IF isSch THEN SubSeq(u, c+1, Len(u)) ELSE u
        hasNet  == StartsWith(r1, <<"/", "/">>)
        r1b     == SubSeq(r1, 3, Len(r1))
        d       == FirstIn(r1b, {"/", "?", "#"})
        netloc  == IF hasNet THEN SubSeq(r1b, 1, d-1) ELSE <<>>
        r2      == IF hasNet THEN SubSeq(r1b, d, Len(r1b)) ELSE r1
        f       == FirstIn(r2, {"#"})
        r3      == SubSeq(r2, 1, f-1)
        q       == FirstIn(r3, {"?"})
    IN  [scheme   |-> scheme,
         netloc   |-> netloc,
         path     |-> SubSeq(r3, 1, q-1),
         query    |-> SubSeq(r3, q+1, Len(r3)),
         fragment |-> SubSeq(r2, f+1, Len(r2))]

\* f"{parsed.scheme}://{parsed.netloc}{parsed.path}"
CleanUrl(parsed) == parsed.scheme \o <<":", "/", "/">> \o parsed.netloc \o parsed.path

\* utils.sanitizers.normalize_url: scheme://netloc/path, the query kept, one
\* trailing slash removed unless the result is the root
normalize_url(url) ==
    LET parsed == urlparse(url)
        whole  == parsed.scheme \o <<":", "/", "/">> \o parsed.netloc \o parsed.path
        kept   == IF parsed.query # <<>> THEN whole \o <<"?">> \o parsed.query ELSE whole
        root   == parsed.scheme \o <<":", "/", "/">> \o parsed.netloc \o <<"/">>
    IN  IF kept[Len(kept)] = "/" /\ Len(kept) > Len(root)
        THEN SubSeq(kept, 1, Len(kept) - 1)
        ELSE kept

\* the URLs an audit can be started on (validate_url: http:// or https://, a host)
Targets == { <<"https", ":", "/", "/", "h", "/">> }

\* the same site as the user may also spell it: without the path (the URL of
\* a request is stored as it was sent, only stripped of surrounding blanks)
Spellings == { <<"https", ":", "/", "/", "h">> }

\* what a.href can be for the anchors of a page (the browser makes them absolute)
Hrefs == { <<"https", ":", "/", "/", "h", "/", "a", "?", "q", "#", "f">>,
           <<"https", ":", "/", "/", "h", "/">>,
           <<"https", ":", "/", "/", "x", "/", "a">>,
           <<"tel", ":", "1">>,
           <<"mailto", ":", "m">> }

\* urlparse on the strings the environment can supply, evaluated once
Parsed == [u \in Targets \cup Spellings \cup Hrefs |-> urlparse(u)]

(***************************************************************************)
(* Program constants and input sets                                        *)
(***************************************************************************)
AllListeners == {"console", "pageerror", "request", "response", "requestfailed",
                 "framenavigated", "load"}

SECURITY_HEADERS == {"Strict-Transport-Security", "Content-Security-Policy",
                     "X-Content-Type-Options", "X-Frame-Options",
                     "Referrer-Policy", "Permissions-Policy"}

\* the ValueErrors of create_authenticated_context and a driver failure
MintErrors == {"Session not found", "Session is not authenticated",
               "Storage state not found", "new_context failed"}
PageErrors == {"new_page failed"}

\* response.status of a navigation; 0 stands for goto returning None
HttpStatuses == {0, 200, 304, 404}

\* responses seen by the response listener
Responses == { [status |-> 200, duration |-> 1000, content_length |-> 500000],
               [status |-> 500, duration |-> 1001, content_length |-> 500001] }

\* cookies the authenticated context can hold
Cookies == { [name |-> "sid", secure |-> FALSE, httpOnly |-> FALSE, sameSite |-> "Lax"],
             [name |-> "ok", secure |-> TRUE, httpOnly |-> TRUE, sameSite |-> "Strict"] }

\* numbers of violations axe.run() can report (after slice(0, 20))
ViolationCounts == {0, 1}

NoFlow == [status |-> "none", notes |-> <<>>]
NoLocal == [response |-> 0, flow |-> NoFlow, missing |-> {}]

(***************************************************************************)
(* State                                                                   *)
(***************************************************************************)
VARIABLES
    audit,           \* the AuditState record of the audit
    pc,              \* the await at which run() is suspended
    context,         \* self.context: "none", "open" or "closed"
    page,            \* self.page: "none", "open" or "closed"
    listeners,       \* the events for which page.on(...) has registered a handler
    pages_to_visit,  \* _crawl_and_audit's list of selected URLs
    i,               \* _crawl_and_audit's loop index
    local,           \* locals of the phase in flight that live across an await
    tasks,           \* tasks created by listeners with asyncio.create_task, in order
    reported,        \* history: stage and percent of every update_progress call of run()
    navIssued,       \* history: page.goto has been called on the audit page
    escaped,         \* history: the exception that reached run()'s except clause
    propagated,      \* history: the exception that left run()
    incidents,       \* history: number of departures from the nominal run so far
    clock,           \* datetime.utcnow(), in minutes
    issued,          \* number of session ids issued so far (uuid4 never repeats)
    _sessions,       \* SessionManager._sessions: session id -> Session
    session_dirs,    \* the session ids whose artifact directory exists
    state_files,     \* the session ids whose storage_state.json exists
    _contexts,       \* BrowserManager._contexts: the ids with a login context
    _pages,          \* BrowserManager._pages: the ids with a login page
    _initialized,    \* BrowserManager._initialized: the browser is launched
    _audits,         \* AuditManager._audits: the session ids of the audit records
    calls,           \* the request handlers and audit tasks in flight
    reply,           \* the outcome of the handler or task the last step ended, if any
    marked,          \* history: ids for which mark_authenticated returned True
    _cleanup_task,   \* SessionManager._cleanup_task: a cleanup loop, or 0 for None
    loops,           \* the cleanup loop tasks created so far, in order: their states
    stopped,         \* history: stop_cleanup_loop returned and no loop was started since
    ran,             \* history: the loop that swept last since the last start or stop, or 0
    inits,           \* the callers of BrowserManager.initialize: where each one is
    drivers_started, \* history: drivers started since the last shutdown
    browsers_launched, \* history: browsers launched since the last shutdown
    requests,        \* RateLimiter.requests: client IP -> timestamps of its admissions
    time,            \* datetime.utcnow() of the rate limiter, in fractions of a minute
    verdict,         \* the last is_allowed call: its IP, its result, what it dropped
    remaining,       \* the last get_remaining call: its IP and what it returned
    findings,        \* ReportBuilder.audit: the findings of the audit a report is built from
    report,          \* the AuditReport that build() returned, or NoReport
    target_content,  \* what page.content() is on the target page of the audit
    visit,           \* a page that _audit_page examines: content, response, option
    outcome,         \* the status, notes and screenshot decision of that visit
    login_context,   \* BrowserManager._contexts.get(id) for one session: a context, or 0
    login_page,      \* BrowserManager._pages.get(id) for that session: a page, or 0
    made_contexts,   \* the contexts the browser created for that session: open or closed
    made_pages,      \* the pages created in them: the context of each, open or closed
    logins,          \* the calls of the login handlers for that session: op, await, locals
    wall,            \* time.time(), in fractions of a second
    _last_preview_capture_s, \* AuditRunner._last_preview_capture_s
    preview_updated_at,      \* audit.preview_updated_at, 0 for None
    preview_page,    \* the page of the runner for the captures: "open" or "closed"
    captures,        \* the calls of _capture_live_preview: where each is, its local now
    shots,           \* history: the local now of every call that reached page.screenshot
    audit_records,   \* AuditManager._audits: audit id -> what update_progress reads and writes
    progress_call,   \* the update_progress call that the last step made, if any
    link,            \* the URL string handed to the two normalisations
    normalized,      \* what normalize_url and the crawl's clean_url made of it
    dom,             \* the elements of the page that is probed, in document order
    check_ui_flows,  \* getattr(audit.options, "check_ui_flows", False)
    probe            \* the actions that the probe selected and the clicks it made

runVars == <<audit, pc, context, page, listeners, pages_to_visit, i, local, tasks,
             reported, navIssued, escaped, propagated, incidents>>

sessVars == <<clock, issued, _sessions, session_dirs, state_files, _contexts, _pages,
              _initialized, _audits, calls, reply, marked>>

\* the cleanup loop of the session manager
loopVars == <<_cleanup_task, loops, stopped, ran>>

\* the calls of BrowserManager.initialize
initVars == <<inits, drivers_started, browsers_launched>>

\* the rate limiter
rateVars == <<requests, time, verdict, remaining>>

\* the report builder
reportVars == <<findings, report>>

\* the content of pages and the status _audit_page gives them
pageVars == <<target_content, visit, outcome>>

\* the functions of the program that keep no state of their own
\* the normalisations of one URL
normVars == <<link, normalized>>

\* the safe UI probe of one page
probeVars == <<dom, check_ui_flows, probe>>

pureVars == <<reportVars, pageVars, normVars, probeVars>>

\* the audit store and the calls of update_progress
storeVars == <<audit_records, progress_call>>

\* the live preview of one audit
previewVars == <<wall, _last_preview_capture_s, preview_updated_at, preview_page,
                 captures, shots>>

\* the login contexts and pages of one session, one by one
loginVars == <<login_context, login_page, made_contexts, made_pages, logins>>

\* the parts of the program that the audit run and the request handlers leave alone
partVars == <<loopVars, initVars, rateVars, pureVars, loginVars, previewVars, storeVars>>

vars == <<runVars, sessVars, partVars>>

\* the session ids of the requests: the values uuid4 returns to
\* create_session, in the order it returns them; an id above issued is an id
\* no session ever had
Sids == {1, 2}

\* no entry in SessionManager._sessions
Absent == [status |-> "absent", expires_at |-> 0, is_authenticated |-> FALSE]

NoReply == [op |-> "none", sid |-> 0, code |-> 0, detail |-> "none"]

\* the services at start-up, before any request
InitServices ==
    /\ clock = 0
    /\ issued = 0
    /\ _sessions = [sid \in Sids |-> Absent]
    /\ session_dirs = {}
    /\ state_files = {}
    /\ _contexts = {}
    /\ _pages = {}
    /\ _initialized = FALSE
    /\ _audits = {}
    /\ calls = {}
    /\ reply = NoReply
    /\ marked = {}

(***************************************************************************)
(* The audit record and the audit store                                    *)
(***************************************************************************)
AuditProgress(stage, percent, current_url, pages_visited, errors_found, message) ==
    [stage |-> stage, percent |-> percent, current_url |-> current_url,
     pages_visited |-> pages_visited, errors_found |-> errors_found,
     message |-> message]

AuditOptions == [max_pages : 1..MaxPagesBound,
                 include_accessibility : BOOLEAN,
                 screenshot_on_error : BOOLEAN]

AuditState(url, options) ==
    [url |-> url, options |-> options,
     status |-> "queued",
     progress |-> AuditProgress("initializing", 0, <<>>, 0, 0, <<>>),
     finished_at |-> "none",
     console_errors |-> 0, network_failures |-> 0, ui_flows |-> <<>>,
     page_timings |-> 0, large_assets |-> 0, slow_endpoints |-> 0,
     security_hygiene |-> [set |-> FALSE, https_ok |-> FALSE,
                           headers_missing |-> {}, cookie_flags_issues |-> 0],
     accessibility_violations |-> 0,
     visited_urls |-> {}, discovered_urls |-> {},
     total_requests |-> 0, error_message |-> "none",
     screenshots |-> 0, preview_image_path |-> "none"]

update_progress_in_place(a, stage, percent, current_url, message) ==
    [a EXCEPT !.progress.stage = stage, !.progress.percent = percent,
              !.progress.current_url = current_url, !.progress.message = message]

\* AuditManager.update_progress: a new AuditProgress, the counts read from the record
update_progress(a, stage, percent, current_url, message) ==
    [a EXCEPT !.progress =
        AuditProgress(stage, percent, current_url,
                      Cardinality(a.visited_urls),
                      a.console_errors + a.network_failures,
                      message)]

\* what one update_progress call of run() reported
Reported(a) == [stage |-> a.progress.stage, percent |-> a.progress.percent]

\* screenshot_path: <<>> for None, else <<"screenshot", N>> for screenshot_N.png
UIFlowResult(page_url, status, notes, screenshot_path) ==
    [page_url |-> page_url, status |-> status, notes |-> notes,
     screenshot_path |-> screenshot_path]

\* AuditRunner.__init__: base_domain = urlparse(audit.url).netloc
base_domain == Parsed[audit.url].netloc

\* the environment answers: nominally, or by one more incident
Env(nominal) ==
    IF nominal THEN incidents' = incidents
    ELSE incidents < MaxIncidents /\ incidents' = incidents + 1

\* SessionManager.__init__: no cleanup loop
InitLoop ==
    /\ _cleanup_task = 0
    /\ loops = <<>>
    /\ stopped = FALSE
    /\ ran = 0

\* the tasks that call initialize when _initialized is not set: a handler in
\* create_context and two audit tasks in create_authenticated_context
Callers == {"open_login", "audit_task_1", "audit_task_2"}

\* BrowserManager.__init__: nothing started
InitInitialize ==
    /\ inits = [t \in Callers |-> "idle"]
    /\ drivers_started = 0
    /\ browsers_launched = 0

\* the client IPs of the requests
Ips == {"10.0.0.1", "10.0.0.2"}

NoVerdict == [ip |-> "none", allowed |-> FALSE, dropped |-> 0]

NoRemaining == [ip |-> "none", left |-> 0]

\* RateLimiter.__init__: no admission recorded
InitRate ==
    /\ requests = [ip \in Ips |-> <<>>]
    /\ time = 0
    /\ verdict = NoVerdict
    /\ remaining = NoRemaining

\* audit.security_hygiene when it is None (the phase did not complete)
NoHygiene ==
    [set |-> FALSE, https_ok |-> FALSE, headers_missing |-> <<>>,
     cookie_flags_issues |-> <<>>]

NoFindings ==
    [console_errors |-> <<>>, network_failures |-> <<>>, ui_flows |-> <<>>,
     security_hygiene |-> NoHygiene, accessibility_violations |-> <<>>,
     slow_endpoints |-> <<>>, large_assets |-> <<>>, url |-> 0]

NoReport == [score |-> -1]

\* no report asked for
InitReport ==
    /\ findings = NoFindings
    /\ report = NoReport

\* page.content(): the characters before and after strip() leaves them out,
\* the number of characters that strip() leaves, a phrase among them
Contents == [blanks : {0, 1}, stripped : {0, 99, 100}, phrase : {"welcome", "oops", "Forbidden"}]

PlainContent == [blanks |-> 0, stripped |-> 100, phrase |-> "welcome"]

NoVisit == [content |-> PlainContent, status |-> 0, screenshot_on_error |-> FALSE]

NoOutcome == [flow |-> NoFlow, screenshot |-> FALSE]

\* no page examined
InitVisit ==
    /\ visit = NoVisit
    /\ outcome = NoOutcome

\* a target that renders as a plain page
InitPage ==
    /\ target_content = PlainContent
    /\ InitVisit

\* the functions without state: not called
NoUrls == [normalize_url |-> <<>>, clean_url |-> <<>>]

InitNormalize ==
    /\ link = <<>>
    /\ normalized = NoUrls

NoProbe == [ran |-> FALSE, actions |-> <<>>, clicks |-> -1]

InitProbe ==
    /\ dom = <<>>
    /\ check_ui_flows = FALSE
    /\ probe = NoProbe

InitPure == InitReport /\ InitPage /\ InitNormalize /\ InitProbe

LoginCalls == 1..MaxLoginCalls

Idle == [op |-> "none", pc |-> "idle", context |-> 0, page |-> 0]

\* BrowserManager.__init__: no context, no page
InitLogin ==
    /\ login_context = 0
    /\ login_page = 0
    /\ made_contexts = <<>>
    /\ made_pages = <<>>
    /\ logins = [t \in LoginCalls |-> Idle]

CaptureCalls == 1..MaxCaptures

\* AuditRunner.__init__: _last_preview_capture_s = 0.0; time.time() is far from 0
InitPreview ==
    /\ wall = Second
    /\ _last_preview_capture_s = 0
    /\ preview_updated_at = 0
    /\ preview_page = "open"
    /\ captures = [t \in CaptureCalls |-> [pc |-> "idle", now |-> 0]]
    /\ shots = <<>>

NoCall == [audit_id |-> "none", stage |-> "none", percent |-> 0]

\* AuditManager.__init__: no audit
InitStore ==
    /\ audit_records = <<>>
    /\ progress_call = NoCall

\* the parts at start-up
InitParts ==
    InitLoop /\ InitInitialize /\ InitRate /\ InitPure /\ InitLogin /\ InitPreview /\ InitStore

InitAudit(urls) ==
    /\ \E url \in urls, options \in AuditOptions : audit = AuditState(url, options)
    /\ pc = "queued"
    /\ context = "none"
    /\ page = "none"
    /\ listeners = {}
    /\ pages_to_visit = <<>>
    /\ i = 0
    /\ local = NoLocal
    /\ tasks = <<>>
    /\ reported = <<>>
    /\ navIssued = FALSE
    /\ escaped = "none"
    /\ propagated = "none"
    /\ incidents = 0

InitOn(urls) == InitAudit(urls) /\ InitServices /\ InitParts

Init == InitOn(Targets)

(***************************************************************************)
(* run(): the except clause, the finalisation and the finally clause       *)
(***************************************************************************)
\* variant: the except clause that forgets error_message
HandleExceptionNoMessage(a, e) ==
    update_progress([a EXCEPT !.status = "error"], "error", 0, <<>>, <<"Audit failed", e>>)

\* except Exception as e: status, error_message, then the "error" progress
HandleException(a, e) ==
    update_progress([a EXCEPT !.status = "error", !.error_message = e],
                    "error", 0, <<>>, <<"Audit failed", e>>)

\* variant: a finalisation that suspends (an await) between its two assignments
FinalizeStatusOnly(a) ==
    update_progress([a EXCEPT !.status = "done"],
                    "complete", 100, <<>>,
                    <<"Audit complete", Cardinality(a.visited_urls)>>)

\* "# Finalize": status, finished_at, then the "complete" progress
Finalize(a) ==
    update_progress([a EXCEPT !.status = "done", !.finished_at = "set"],
                    "complete", 100, <<>>,
                    <<"Audit complete", Cardinality(a.visited_urls)>>)

\* finally: the first close that is awaited, or the end of run()
TeardownPc(pg, ctx) ==
    IF pg = "open" THEN "close_page"
    ELSE IF ctx # "none" THEN "close_context"
    ELSE "exited"

\* run(), first statements: status = RUNNING, progress "starting", then the
\* await of create_authenticated_context
Start ==
    /\ pc = "queued"
    /\ audit' = update_progress([audit EXCEPT !.status = "running"],
                                "starting", 5, <<>>, <<>>)
    /\ reported' = Append(reported, Reported(audit'))
    /\ pc' = "mint"
    /\ UNCHANGED <<context, page, listeners, pages_to_visit, i, local, tasks,
                   navIssued, escaped, propagated, incidents>>
    /\ UNCHANGED <<sessVars, partVars>>

\* an exception e reaches the except clause: record it and go to the finally
Raise(e) ==
    /\ audit' = HandleException(audit, e)
    /\ reported' = Append(reported, Reported(audit'))
    /\ escaped' = e
    /\ pc' = TeardownPc(page, context)
    /\ Env(FALSE)
    /\ UNCHANGED <<context, page, listeners, pages_to_visit, i, local, tasks,
                   navIssued, propagated>>

\* create_authenticated_context resolves: a context, or one of its errors
MintContext ==
    /\ pc = "mint"
    /\ \/ /\ context' = "open"
          /\ pc' = "new_page"
          /\ UNCHANGED <<audit, page, listeners, pages_to_visit, i, local, tasks,
                         reported, navIssued, escaped, propagated, incidents>>
       \/ \E e \in MintErrors : Raise(e)
    /\ UNCHANGED <<sessVars, partVars>>

\* variant: the load listener registered only after the first navigation
SetupEventListenersLate == AllListeners \ {"load"}

\* _setup_event_listeners: seven page.on calls, no await among them
SetupEventListeners == AllListeners

(***************************************************************************)
(* Phase 3: _check_initial_availability                                    *)
(***************************************************************************)
\* the preview capture of a call awaited by run(): the page is open; the
\* frame is written unless the capture is throttled or the screenshot fails
CapturePreview(a, captured) ==
    IF captured THEN [a EXCEPT !.preview_image_path = "set"] ELSE a

\* _crawl_and_audit, first statement
EnterCrawl(a) == update_progress(a, "crawling", 20, <<>>, <<"Discovering pages...">>)

\* status and notes from the response of the initial navigation
AvailabilityStatus(st) ==
    IF st >= 400 THEN [status |-> "error", notes |-> <<"HTTP", st>>]
    ELSE IF st >= 300 THEN [status |-> "warning", notes |-> <<"Redirect: HTTP", st>>]
    ELSE [status |-> "ok", notes |-> <<>>]

\* after the goto and the preview: the timing, the UIFlowResult, visited_urls
AvailabilityResult(a, st) ==
    LET f == AvailabilityStatus(st)
    IN  [a EXCEPT !.page_timings = @ + 1,
                  !.ui_flows = Append(@, UIFlowResult(a.url, f.status, f.notes, <<>>)),
                  !.visited_urls = @ \cup {a.url}]

\* the goto of _check_initial_availability is inside its try ... except Exception
AvailabilityUnguarded == FALSE
AvailabilityGuarded == TRUE

\* "except Exception" of _check_initial_availability
AvailabilityFailed(a) ==
    [a EXCEPT !.ui_flows = Append(@, UIFlowResult(a.url, "error", <<"Failed to load">>, <<>>))]

\* context.new_page() resolves; on success the listeners are set up and
\* _check_initial_availability runs up to its page.goto
NewPage ==
    /\ pc = "new_page"
    /\ \/ /\ page' = "open"
          /\ listeners' = SetupEventListeners
          /\ audit' = update_progress(audit, "checking_availability", 10, audit.url, <<>>)
          /\ reported' = Append(reported, Reported(audit'))
          /\ navIssued' = TRUE
          /\ pc' = "initial_goto"
          /\ UNCHANGED <<context, pages_to_visit, i, local, tasks, escaped,
                         propagated, incidents>>
       \/ \E e \in PageErrors : Raise(e)
    /\ UNCHANGED <<sessVars, partVars>>

\* the initial page.goto resolves
InitialGoto ==
    /\ pc = "initial_goto"
    /\ \/ \E st \in HttpStatuses :
            /\ Env(st = 200)
            /\ local' = [local EXCEPT !.response = st]
            /\ pc' = "initial_preview"
            /\ UNCHANGED <<audit, reported, escaped>>
       \/ IF AvailabilityGuarded
          THEN /\ Env(FALSE)
               /\ audit' = EnterCrawl(AvailabilityFailed(audit))
               /\ reported' = Append(reported, Reported(audit'))
               /\ pc' = "discover"
               /\ UNCHANGED <<local, escaped>>
          ELSE Raise("goto failed")
    /\ UNCHANGED <<context, page, listeners, pages_to_visit, i, tasks, navIssued,
                   propagated>>
    /\ UNCHANGED <<sessVars, partVars>>

\* the initial preview capture resolves; the rest of the phase and the start
\* of _crawl_and_audit follow without an await
InitialPreview ==
    /\ pc = "initial_preview"
    /\ \E captured \in BOOLEAN :
         /\ Env(captured)
         /\ audit' = EnterCrawl(AvailabilityResult(CapturePreview(audit, captured),
                                                   local.response))
    /\ reported' = Append(reported, Reported(audit'))
    /\ local' = NoLocal
    /\ pc' = "discover"
    /\ UNCHANGED <<context, page, listeners, pages_to_visit, i, tasks, navIssued,
                   escaped, propagated>>
    /\ UNCHANGED <<sessVars, partVars>>

(***************************************************************************)
(* Phases 4 and 5: _crawl_and_audit, _discover_links, _audit_page          *)
(***************************************************************************)
\* the filter of the script evaluated in the page
JsLinks(anchors) ==
    {h \in anchors : /\ ~StartsWith(h, <<"javascript", ":">>)
                     /\ ~StartsWith(h, <<"mailto", ":">>)}

\* "parsed.netloc == self.base_domain or not parsed.netloc"
SameDomain(parsed, base) == parsed.netloc = base \/ parsed.netloc = <<>>

\* the loop of _discover_links over the links the page returned: the new
\* value of discovered_urls
DiscoverLinks(a, links) ==
    LET clean == {CleanUrl(Parsed[l]) :
                    l \in {l \in links : SameDomain(Parsed[l], Parsed[a.url].netloc)}}
    IN  a.discovered_urls \cup {u \in clean : u \notin a.visited_urls}

\* the lists the evaluate of _discover_links can return
PageLinks == {JsLinks(anchors) : anchors \in SUBSET Hrefs}

\* _discover_links when the evaluate succeeds, for every such list
Discoveries(a) ==
    {[a EXCEPT !.discovered_urls = d] : d \in {DiscoverLinks(a, links) : links \in PageLinks}}

Min(x, y) == IF x < y THEN x ELSE y
Max(x, y) == IF x > y THEN x ELSE y

\* variant: the slice without the "- 1" for the initial page
SliceLenWhole(n, max_pages) == Min(n, max_pages)

\* number of pages kept by pages_to_visit[: max_pages - 1]
SliceLen(n, max_pages) == Min(n, max_pages - 1)

\* list(discovered - visited)[: max_pages - 1]: a set has no prescribed order
Selections(a) ==
    LET S == a.discovered_urls \ a.visited_urls
        n == SliceLen(Cardinality(S), a.options.max_pages)
    IN  {f \in [1..n -> S] : \A x, y \in 1..n : x # y => f[x] # f[y]}

\* variant: the quotient truncated before the multiplication
PagePercentTruncated(k, total) == 20 + ((k \div Max(total, 1)) * 60)

\* 20 + int((i / max(total_pages, 1)) * 60)
PagePercent(k, total) == 20 + ((k * 60) \div Max(total, 1))

\* the update_progress at the head of the loop body, for index k (from 0)
BeginPage(a, pages, k) ==
    update_progress(a, "auditing_pages", PagePercent(k, Len(pages)), pages[k + 1],
                    <<"Checking page", k + 1, Len(pages)>>)

\* variant: the security stage reported as the end of the audit
EnterSecurityAsComplete(a) ==
    update_progress(a, "complete", 100, <<>>, <<"Checking security hygiene...">>)

\* _check_security_hygiene, first statement
EnterSecurity(a) ==
    update_progress(a, "security_check", 85, <<>>, <<"Checking security hygiene...">>)

\* _crawl_and_audit after its _discover_links: the selection, then the head
\* of the loop or, with nothing selected, _check_security_hygiene
SelectAndBegin(a1) ==
    \E pages \in Selections(a1) :
        /\ pages_to_visit' = pages
        /\ i' = 0
        /\ IF Len(pages) = 0
           THEN /\ audit' = EnterSecurity(a1)
                /\ reported' = Append(reported, Reported(audit'))
                /\ pc' = "sec_headers"
           ELSE /\ audit' = BeginPage(a1, pages, 0)
                /\ reported' = Append(reported, Reported(audit'))
                /\ pc' = "page_goto"

\* the first _discover_links of _crawl_and_audit resolves: the links of the
\* page, or a failure of the evaluate, which is logged and leaves the set as is
CrawlDiscover ==
    /\ pc = "discover"
    /\ \/ \E a1 \in Discoveries(audit) :
            /\ Env(TRUE)
            /\ SelectAndBegin(a1)
       \/ /\ Env(FALSE)
          /\ SelectAndBegin(audit)
    /\ UNCHANGED <<context, page, listeners, local, tasks, navIssued, escaped,
                   propagated>>
    /\ UNCHANGED <<sessVars, partVars>>

\* variant: an except clause that only logs
PageFailedUnrecorded(a, url) == a

\* "except Exception" of _audit_page
PageFailed(a, url) ==
    [a EXCEPT !.ui_flows = Append(@, UIFlowResult(url, "error", <<"Failed">>, <<>>))]

\* back in the loop of _crawl_and_audit: visited_urls.add(url)
AfterPage(a, url) == [a EXCEPT !.visited_urls = @ \cup {url}]

ERROR_PATTERNS ==
    {"something went wrong", "error occurred", "page not found", "404",
     "500 internal server error", "access denied", "forbidden", "oops",
     "unexpected error"}

\* re.IGNORECASE, on the phrases of Contents
Lower(phrase) ==
    IF phrase = "Forbidden" THEN "forbidden"
    ELSE IF phrase = "Delete" THEN "delete"
    ELSE phrase

\* ERROR_REGEX.search(content) is not None
has_error(content) == Lower(content.phrase) \in ERROR_PATTERNS

\* len(content.strip()) < 100
is_blank(content) == content.stripped < 100

PageStatusPhraseFirst(content, st) ==
    IF has_error(content) THEN [status |-> "warning", notes |-> <<"Page contains error patterns">>]
    ELSE IF is_blank(content) THEN [status |-> "error", notes |-> <<"Blank or nearly empty page">>]
    ELSE IF st >= 400 THEN [status |-> "error", notes |-> <<"HTTP", st>>]
    ELSE [status |-> "ok", notes |-> <<>>]

\* status and notes of an audited page
PageStatus(content, st) ==
    IF is_blank(content) THEN [status |-> "error", notes |-> <<"Blank or nearly empty page">>]
    ELSE IF has_error(content) THEN [status |-> "warning", notes |-> <<"Page contains error patterns">>]
    ELSE IF st >= 400 THEN [status |-> "error", notes |-> <<"HTTP", st>>]
    ELSE [status |-> "ok", notes |-> <<>>]

\* if status != "ok" and self.audit.options.screenshot_on_error
WantsScreenshot(f, options) == f.status # "ok" /\ options.screenshot_on_error

\* self.audit.ui_flows.append(UIFlowResult(...)) of _audit_page
AppendFlow(a, url, f, screenshot_path) ==
    [a EXCEPT !.ui_flows = Append(@, UIFlowResult(url, f.status, f.notes, screenshot_path))]

\* _take_screenshot: screenshot_{len(screenshots)}.png, appended when written
TakeScreenshot(a, ok) == [a EXCEPT !.screenshots = IF ok THEN @ + 1 ELSE @]
ScreenshotPath(a, ok) == IF ok THEN <<"screenshot", a.screenshots>> ELSE <<>>

\* the page.goto of _audit_page resolves; on success the settle sleep and the
\* timing follow, up to the await of page.content()
PageGoto ==
    /\ pc = "page_goto"
    /\ \/ \E st \in HttpStatuses :
            /\ Env(st = 200)
            /\ audit' = [audit EXCEPT !.page_timings = @ + 1]
            /\ local' = [local EXCEPT !.response = st]
            /\ pc' = "page_content"
       \/ /\ Env(FALSE)
          /\ audit' = AfterPage(PageFailed(audit, pages_to_visit[i + 1]), pages_to_visit[i + 1])
          /\ local' = NoLocal
          /\ pc' = "page_sleep"
    /\ UNCHANGED <<context, page, listeners, pages_to_visit, i, tasks, reported,
                   navIssued, escaped, propagated>>
    /\ UNCHANGED <<sessVars, partVars>>

\* page.content() resolves; the status is chosen, then either the screenshot
\* or the link discovery is awaited
PageContent ==
    /\ pc = "page_content"
    /\ \/ \E content \in Contents :
            LET f == PageStatus(content, local.response)
            IN  /\ Env(~is_blank(content) /\ ~has_error(content))
                /\ IF WantsScreenshot(f, audit.options)
                   THEN /\ local' = [local EXCEPT !.flow = f]
                        /\ pc' = "page_screenshot"
                        /\ UNCHANGED audit
                   ELSE /\ audit' = AppendFlow(audit, pages_to_visit[i + 1], f, <<>>)
                        /\ local' = NoLocal
                        /\ pc' = "page_discover"
       \/ /\ Env(FALSE)
          /\ audit' = AfterPage(PageFailed(audit, pages_to_visit[i + 1]), pages_to_visit[i + 1])
          /\ local' = NoLocal
          /\ pc' = "page_sleep"
    /\ UNCHANGED <<context, page, listeners, pages_to_visit, i, tasks, reported,
                   navIssued, escaped, propagated>>
    /\ UNCHANGED <<sessVars, partVars>>

\* _take_screenshot resolves (a failure is swallowed); the UIFlowResult is
\* appended and the link discovery awaited
PageScreenshot ==
    /\ pc = "page_screenshot"
    /\ \E ok \in BOOLEAN :
         /\ Env(ok)
         /\ audit' = AppendFlow(TakeScreenshot(audit, ok), pages_to_visit[i + 1],
                                local.flow, ScreenshotPath(audit, ok))
    /\ local' = NoLocal
    /\ pc' = "page_discover"
    /\ UNCHANGED <<context, page, listeners, pages_to_visit, i, tasks, reported,
                   navIssued, escaped, propagated>>
    /\ UNCHANGED <<sessVars, partVars>>

\* the _discover_links of _audit_page resolves; the preview capture is awaited
PageDiscover ==
    /\ pc = "page_discover"
    /\ \/ \E a1 \in Discoveries(audit) :
            /\ Env(TRUE)
            /\ audit' = a1
       \/ /\ Env(FALSE)
          /\ audit' = audit
    /\ pc' = "page_preview"
    /\ UNCHANGED <<context, page, listeners, pages_to_visit, i, local, tasks, reported,
                   navIssued, escaped, propagated>>
    /\ UNCHANGED <<sessVars, partVars>>

\* the preview capture of _audit_page resolves; back in the loop the URL is
\* added to visited_urls and the 0.5 s sleep awaited
PagePreview ==
    /\ pc = "page_preview"
    /\ \E captured \in BOOLEAN :
         /\ Env(captured)
         /\ audit' = AfterPage(CapturePreview(audit, captured), pages_to_visit[i + 1])
    /\ pc' = "page_sleep"
    /\ UNCHANGED <<context, page, listeners, pages_to_visit, i, local, tasks, reported,
                   navIssued, escaped, propagated>>
    /\ UNCHANGED <<sessVars, partVars>>

\* the sleep between pages resolves: the next page, or _check_security_hygiene
PageSleep ==
    /\ pc = "page_sleep"
    /\ IF i + 1 < Len(pages_to_visit)
       THEN /\ i' = i + 1
            /\ audit' = BeginPage(audit, pages_to_visit, i + 1)
            /\ reported' = Append(reported, Reported(audit'))
            /\ pc' = "page_goto"
       ELSE /\ i' = i
            /\ audit' = EnterSecurity(audit)
            /\ reported' = Append(reported, Reported(audit'))
            /\ pc' = "sec_headers"
    /\ UNCHANGED <<context, page, listeners, pages_to_visit, local, tasks,
                   navIssued, escaped, propagated, incidents>>
    /\ UNCHANGED <<sessVars, partVars>>

(***************************************************************************)
(* Phases 6 to 8: security hygiene, accessibility, finalisation, teardown  *)
(***************************************************************************)
\* check_security_headers: the tracked headers the HEAD response lacks; all
\* of them when the request times out or fails
CheckSecurityHeaders(failed, headers) ==
    IF failed THEN SECURITY_HEADERS ELSE SECURITY_HEADERS \ headers

\* the issues of one cookie
CookieIssues(c) ==
    (IF ~c.secure THEN {"Missing Secure flag"} ELSE {})
    \cup (IF ~c.httpOnly THEN {"Missing HttpOnly flag"} ELSE {})
    \cup (IF c.sameSite \in {"", "None"} THEN {"SameSite not set or None"} ELSE {})

SecurityHygiene(a, missing, cookie_issues) ==
    [a EXCEPT !.security_hygiene =
        [set |-> TRUE,
         https_ok |-> StartsWith(a.url, <<"https", ":", "/", "/">>),
         headers_missing |-> missing,
         cookie_flags_issues |-> cookie_issues]]

\* variant: the accessibility phase reported under the stage of the phase before
EnterAccessibilityAsSecurity(a) ==
    update_progress(a, "security_check", 90, <<>>,
                    <<"Running accessibility checks...">>)

\* _run_accessibility_checks, the statement before its try
EnterAccessibility(a) ==
    update_progress(a, "accessibility_check", 90, <<>>,
                    <<"Running accessibility checks...">>)

\* the end of run()'s try block and the entry of its finally clause
Complete(a) ==
    /\ audit' = Finalize(a)
    /\ reported' = Append(reported, Reported(audit'))
    /\ pc' = TeardownPc(page, context)

\* check_security_headers resolves (it never raises); context.cookies() is awaited
SecHeaders ==
    /\ pc = "sec_headers"
    /\ \E failed \in BOOLEAN, headers \in {SECURITY_HEADERS, {}} :
         /\ Env(CheckSecurityHeaders(failed, headers) = {})
         /\ local' = [local EXCEPT !.missing = CheckSecurityHeaders(failed, headers)]
    /\ pc' = "sec_cookies"
    /\ UNCHANGED <<audit, context, page, listeners, pages_to_visit, i, tasks, reported,
                   navIssued, escaped, propagated>>
    /\ UNCHANGED <<sessVars, partVars>>

\* context.cookies() resolves (a failure leaves no issue); the record is
\* stored; then _run_accessibility_checks up to its goto, or the finalisation
SecCookies ==
    /\ pc = "sec_cookies"
    /\ \E failed \in BOOLEAN, cookies \in SUBSET Cookies :
         LET issues == IF failed THEN 0
                       ELSE Cardinality({c \in cookies : CookieIssues(c) # {}})
             a1     == SecurityHygiene(audit, local.missing, issues)
         IN  /\ Env(~failed /\ issues = 0)
             /\ IF a1.options.include_accessibility
                THEN /\ audit' = EnterAccessibility(a1)
                     /\ reported' = Append(reported, Reported(audit'))
                     /\ pc' = "a11y_goto"
                ELSE Complete(a1)
    /\ local' = NoLocal
    /\ UNCHANGED <<context, page, listeners, pages_to_visit, i, tasks,
                   navIssued, escaped, propagated>>
    /\ UNCHANGED <<sessVars, partVars>>

\* the goto of the accessibility check resolves
A11yGoto ==
    /\ pc = "a11y_goto"
    /\ \/ /\ pc' = "a11y_inject"
          /\ UNCHANGED <<audit, reported, incidents>>
       \/ Env(FALSE) /\ Complete(audit)
    /\ UNCHANGED <<context, page, listeners, pages_to_visit, i, local, tasks,
                   navIssued, escaped, propagated>>
    /\ UNCHANGED <<sessVars, partVars>>

\* add_script_tag resolves
A11yInject ==
    /\ pc = "a11y_inject"
    /\ \/ /\ pc' = "a11y_evaluate"
          /\ UNCHANGED <<audit, reported, incidents>>
       \/ Env(FALSE) /\ Complete(audit)
    /\ UNCHANGED <<context, page, listeners, pages_to_visit, i, local, tasks,
                   navIssued, escaped, propagated>>
    /\ UNCHANGED <<sessVars, partVars>>

\* the evaluation of the scanner resolves
A11yEvaluate ==
    /\ pc = "a11y_evaluate"
    /\ \/ \E n \in ViolationCounts :
            /\ Env(n = 0)
            /\ Complete([audit EXCEPT !.accessibility_violations = @ + n])
       \/ Env(FALSE) /\ Complete(audit)
    /\ UNCHANGED <<context, page, listeners, pages_to_visit, i, local, tasks,
                   navIssued, escaped, propagated>>
    /\ UNCHANGED <<sessVars, partVars>>

\* finally: page.close() resolves; when it raises, run() is left at once
ClosePage ==
    /\ pc = "close_page"
    /\ \/ /\ page' = "closed"
          /\ pc' = "close_context"
          /\ UNCHANGED <<propagated, incidents>>
       \/ /\ Env(FALSE)
          /\ propagated' = "page.close failed"
          /\ pc' = "exited"
          /\ UNCHANGED page
    /\ UNCHANGED <<audit, context, listeners, pages_to_visit, i, local, tasks, reported,
                   navIssued, escaped>>
    /\ UNCHANGED <<sessVars, partVars>>

\* finally: context.close() resolves
CloseContext ==
    /\ pc = "close_context"
    /\ \/ /\ context' = "closed"
          /\ UNCHANGED <<propagated, incidents>>
       \/ /\ Env(FALSE)
          /\ propagated' = "context.close failed"
          /\ UNCHANGED context
    /\ pc' = "exited"
    /\ UNCHANGED <<audit, page, listeners, pages_to_visit, i, local, tasks, reported,
                   navIssued, escaped>>
    /\ UNCHANGED <<sessVars, partVars>>

(***************************************************************************)
(* Event listeners (4.4.1) and the tasks they create                       *)
(***************************************************************************)
\* an event reaches the handler registered for it on the open page
Delivered(name) ==
    /\ page = "open"
    /\ name \in listeners
    /\ Env(FALSE)

OnConsole ==
    /\ Delivered("console")
    /\ \E type \in {"error", "warning", "log"} :
         audit' = IF type \in {"error", "warning"}
                  THEN [audit EXCEPT !.console_errors = @ + 1]
                  ELSE audit
    /\ UNCHANGED <<pc, context, page, listeners, pages_to_visit, i, local, tasks,
                   reported, navIssued, escaped, propagated>>
    /\ UNCHANGED <<sessVars, partVars>>

OnPageError ==
    /\ Delivered("pageerror")
    /\ audit' = [audit EXCEPT !.console_errors = @ + 1]
    /\ UNCHANGED <<pc, context, page, listeners, pages_to_visit, i, local, tasks,
                   reported, navIssued, escaped, propagated>>
    /\ UNCHANGED <<sessVars, partVars>>

OnRequest ==
    /\ Delivered("request")
    /\ audit' = [audit EXCEPT !.total_requests = @ + 1]
    /\ UNCHANGED <<pc, context, page, listeners, pages_to_visit, i, local, tasks,
                   reported, navIssued, escaped, propagated>>
    /\ UNCHANGED <<sessVars, partVars>>

OnRequestFailed ==
    /\ Delivered("requestfailed")
    /\ audit' = [audit EXCEPT !.network_failures = @ + 1]
    /\ UNCHANGED <<pc, context, page, listeners, pages_to_visit, i, local, tasks,
                   reported, navIssued, escaped, propagated>>
    /\ UNCHANGED <<sessVars, partVars>>

\* lambda r: asyncio.create_task(on_response(r))
OnResponseEvent ==
    /\ Delivered("response")
    /\ \E r \in Responses : tasks' = Append(tasks, [kind |-> "response", response |-> r])
    /\ UNCHANGED <<audit, pc, context, page, listeners, pages_to_visit, i, local,
                   reported, navIssued, escaped, propagated>>
    /\ UNCHANGED <<sessVars, partVars>>

\* framenavigated: a capture task for the main frame only
OnFrameNavigated ==
    /\ Delivered("framenavigated")
    /\ \E main_frame \in BOOLEAN :
         tasks' = IF main_frame THEN Append(tasks, [kind |-> "capture", response |-> <<>>])
                  ELSE tasks
    /\ UNCHANGED <<audit, pc, context, page, listeners, pages_to_visit, i, local,
                   reported, navIssued, escaped, propagated>>
    /\ UNCHANGED <<sessVars, partVars>>

OnLoad ==
    /\ Delivered("load")
    /\ tasks' = Append(tasks, [kind |-> "capture", response |-> <<>>])
    /\ UNCHANGED <<audit, pc, context, page, listeners, pages_to_visit, i, local,
                   reported, navIssued, escaped, propagated>>
    /\ UNCHANGED <<sessVars, partVars>>

\* variant: a listener that marks the audit failed on a failed response
on_response_failing(a, r) ==
    [a EXCEPT !.network_failures = IF r.status >= 400 THEN @ + 1 ELSE @,
              !.slow_endpoints   = IF r.duration > 1000 THEN @ + 1 ELSE @,
              !.large_assets     = IF r.content_length > 500000 THEN @ + 1 ELSE @,
              !.status           = IF r.status >= 400 THEN "error" ELSE @]

\* the body of on_response (it has no await)
on_response(a, r) ==
    [a EXCEPT !.network_failures = IF r.status >= 400 THEN @ + 1 ELSE @,
              !.slow_endpoints   = IF r.duration > 1000 THEN @ + 1 ELSE @,
              !.large_assets     = IF r.content_length > 500000 THEN @ + 1 ELSE @]

\* the scheduler runs the oldest task a listener created; a capture task
\* returns at once when the page is closed
RunTask ==
    /\ tasks # <<>>
    /\ tasks' = Tail(tasks)
    /\ IF Head(tasks).kind = "response"
       THEN audit' = on_response(audit, Head(tasks).response)
       ELSE audit' = IF page = "open" THEN CapturePreview(audit, TRUE) ELSE audit
    /\ UNCHANGED <<pc, context, page, listeners, pages_to_visit, i, local,
                   reported, navIssued, escaped, propagated, incidents>>
    /\ UNCHANGED <<sessVars, partVars>>

(***************************************************************************)
(* Specification                                                           *)
(***************************************************************************)
Next ==
    \/ Start
    \/ MintContext
    \/ NewPage
    \/ InitialGoto
    \/ InitialPreview
    \/ CrawlDiscover
    \/ PageGoto
    \/ PageContent
    \/ PageScreenshot
    \/ PageDiscover
    \/ PagePreview
    \/ PageSleep
    \/ SecHeaders
    \/ SecCookies
    \/ A11yGoto
    \/ A11yInject
    \/ A11yEvaluate
    \/ ClosePage
    \/ CloseContext
    \/ OnConsole
    \/ OnPageError
    \/ OnRequest
    \/ OnRequestFailed
    \/ OnResponseEvent
    \/ OnFrameNavigated
    \/ OnLoad
    \/ RunTask

Spec == Init /\ [][Next]_vars

(***************************************************************************)
(* Properties of the audit lifecycle                                       *)
(***************************************************************************)
StatusSteps == {<<"queued", "running">>, <<"running", "done">>, <<"running", "error">>}

\* C1: status only moves queued -> running -> done or queued -> running ->
\* error; no step of run(), teardown included, and no listener or listener
\* task moves it backwards, skips running, or changes it once it is done or
\* error
StatusMonotone ==
    [][audit'.status = audit.status \/ <<audit.status, audit'.status>> \in StatusSteps]_vars

\* a listener has counted an error after the audit became done
StatusKeptAfterDone ==
    /\ audit.status = "done"
    /\ audit.progress.errors_found < audit.console_errors + audit.network_failures

\* C2: at every moment |visited_urls| <= options.max_pages, whatever links
\* the pages expose, also when discovery adds URLs during the page audits and
\* when the initial navigation fails
VisitedWithinMaxPages == Cardinality(audit.visited_urls) <= audit.options.max_pages

\* the cap is reached with discovered URLs left unvisited
MaxPagesReached ==
    /\ pc = "exited"
    /\ audit.options.max_pages >= 2
    /\ Cardinality(audit.visited_urls) = audit.options.max_pages
    /\ audit.discovered_urls \ audit.visited_urls # {}

\* number of "auditing_pages" updates among the first k reported
RECURSIVE PagesBefore(_)
PagesBefore(k) ==
    IF k = 0 THEN 0
    ELSE PagesBefore(k - 1) + (IF reported[k].stage = "auditing_pages" THEN 1 ELSE 0)

\* the percent the k-th update is to carry; pages are counted from 0
ExpectedPercent(k) ==
    LET stage == reported[k].stage
    IN  IF stage = "starting" THEN 5
        ELSE IF stage = "checking_availability" THEN 10
        ELSE IF stage = "crawling" THEN 20
        ELSE IF stage = "auditing_pages"
             THEN 20 + (60 * PagesBefore(k - 1)) \div Len(pages_to_visit)
        ELSE IF stage = "security_check" THEN 85
        ELSE IF stage = "accessibility_check" THEN 90
        ELSE IF stage = "complete" THEN 100
        ELSE 0

\* C3: progress.percent is within [0,100] and never decreases from one update
\* to the next while the audit runs: 5, 10, 20, 20 + floor(60*i/total) for
\* page i (from 0) of the total selected, within 20..80, then 85, 90 with
\* accessibility enabled, 100; it is 0 again only once status is error
PercentMonotone ==
    /\ audit.progress.percent \in 0..100
    /\ reported # <<>> => audit.progress.percent = reported[Len(reported)].percent
    /\ \A k \in DOMAIN reported :
         /\ reported[k].percent = ExpectedPercent(k)
         /\ reported[k].stage = "auditing_pages" => reported[k].percent \in 20..80
         /\ reported[k].stage = "accessibility_check" => audit.options.include_accessibility
         /\ (k > 1 /\ reported[k].stage # "error") => reported[k].percent >= reported[k-1].percent
         /\ reported[k].stage = "error" => k = Len(reported) /\ audit.status = "error"
    /\ (audit.status = "running" /\ reported # <<>>) => audit.progress.percent > 0

\* the second of two selected pages is being audited
SecondPageReported ==
    /\ audit.status = "running"
    /\ Len(pages_to_visit) = 2
    /\ i = 1
    /\ audit.progress.percent = 50

\* C4: finished_at is set iff status is done or error
FinishedIffTerminal ==
    (audit.status \in {"done", "error"}) <=> (audit.finished_at # "none")

\* C5: at every moment another task can read the record, status = done
\* implies finished_at is set
DoneHasFinishedAt == audit.status = "done" => audit.finished_at = "set"

\* the audit is done, run() is suspended in its teardown and a listener task
\* is about to run
DoneReadByTask ==
    /\ audit.status = "done"
    /\ pc = "close_page"
    /\ tasks # <<>>

(***************************************************************************)
(* Properties of the crawl, the listeners, the stages and the failures     *)
(***************************************************************************)
\* C6: every URL in visited_urls \cup discovered_urls has the netloc of the
\* audit's target URL, for every set of hrefs a page can expose, hrefs whose
\* parsed netloc is empty included
UrlsOnBaseDomain ==
    \A u \in audit.visited_urls \cup audit.discovered_urls :
        urlparse(u).netloc = base_domain

\* C7: all seven listeners are registered on the audit page before the first
\* navigation of that page is issued, so that no navigation's event finds a
\* listener missing
ListenersBeforeNavigation ==
    /\ navIssued => listeners = AllListeners
    /\ pc \in {"initial_goto", "page_goto", "a11y_goto"} => AllListeners \subseteq listeners

\* an event of the initial navigation has reached its listener
FirstNavigationObserved ==
    /\ pc = "initial_goto"
    /\ navIssued
    /\ tasks # <<>>

StageNames == [k \in DOMAIN reported |-> reported[k].stage]

RECURSIVE Repeat(_, _)
Repeat(x, n) == IF n = 0 THEN <<>> ELSE <<x>> \o Repeat(x, n - 1)

\* C8: in an audit that reaches done the reported stages are, in this order,
\* starting (5), checking_availability (10), crawling (20), zero or more
\* auditing_pages, security_check (85), accessibility_check (90) iff
\* include_accessibility, complete (100)
StagesInOrder ==
    audit.status = "done" =>
        /\ \E n \in 0..Len(reported) :
             StageNames = <<"starting", "checking_availability", "crawling">>
                          \o Repeat("auditing_pages", n)
                          \o <<"security_check">>
                          \o (IF audit.options.include_accessibility
                              THEN <<"accessibility_check">> ELSE <<>>)
                          \o <<"complete">>
        /\ \A k \in DOMAIN reported :
             reported[k].stage # "auditing_pages" =>
                 <<reported[k].stage, reported[k].percent>> \in
                     {<<"starting", 5>>, <<"checking_availability", 10>>,
                      <<"crawling", 20>>, <<"security_check", 85>>,
                      <<"accessibility_check", 90>>, <<"complete", 100>>}

\* a finished audit of two pages with the accessibility check
AllStagesReported ==
    /\ audit.status = "done"
    /\ audit.options.include_accessibility
    /\ Len(reported) = 8

\* C9: when an exception escapes a phase of run() before the finalisation,
\* the record ends with status error, the exception's description as
\* error_message, stage "error", percent 0 and a non-empty message, and that
\* exception does not leave run()
ExceptionRecorded ==
    escaped # "none" =>
        /\ audit.status = "error"
        /\ audit.error_message = escaped
        /\ audit.progress.stage = "error"
        /\ audit.progress.percent = 0
        /\ audit.progress.message # <<>>
        /\ propagated # escaped
        /\ pc \in {"close_page", "close_context", "exited"}

\* the first page-open failed, the context was closed and run() returned
PageOpenFailureRecorded ==
    /\ escaped \in PageErrors
    /\ pc = "exited"
    /\ context = "closed"
    /\ propagated = "none"

TeardownCloses ==
    (pc = "exited" /\ context # "none") => (context = "closed" /\ page # "open")

(***************************************************************************)
(* Termination: scheduling, timeouts and cancellation                      *)
(***************************************************************************)
\* the awaits of run()'s try block
TryAwaits == {"mint", "new_page", "initial_goto", "initial_preview", "discover",
              "page_goto", "page_content", "page_screenshot", "page_discover",
              "page_preview", "page_sleep", "sec_headers", "sec_cookies",
              "a11y_goto", "a11y_inject", "a11y_evaluate"}

\* the task is cancelled while run() is suspended in its try block:
\* CancelledError is not an Exception, so the except clause is passed over
\* and the finally clause runs with the record as it is
Cancel ==
    /\ pc \in TryAwaits
    /\ Env(FALSE)
    /\ propagated' = "CancelledError"
    /\ pc' = TeardownPc(page, context)
    /\ UNCHANGED <<audit, context, page, listeners, pages_to_visit, i, local, tasks,
                   reported, navIssued, escaped>>
    /\ UNCHANGED <<sessVars, partVars>>

NextShutdown == Next \/ Cancel

\* the steps that end by themselves: synchronous code, operations with a
\* timeout (goto, screenshot, the header probe), sleeps, protocol calls that
\* do not wait on the page
TimedSteps ==
    \/ Start
    \/ MintContext
    \/ NewPage
    \/ InitialGoto
    \/ InitialPreview
    \/ PageGoto
    \/ PageScreenshot
    \/ PagePreview
    \/ PageSleep
    \/ SecHeaders
    \/ SecCookies
    \/ A11yGoto
    \/ A11yInject
    \/ ClosePage
    \/ CloseContext
    \/ RunTask

\* fair scheduling of the event loop; page.evaluate() and page.content()
\* carry no timeout and get no fairness: they may never resolve
SpecLive == Init /\ [][NextShutdown]_vars /\ WF_vars(TimedSteps)

\* C12: every audit whose task has started eventually reaches status done or
\* error, under fair scheduling and with every operation that carries a
\* timeout returning or failing within it
StartedAuditEnds == (pc # "queued") ~> (audit.status \in {"done", "error"})

(***************************************************************************)
(* The crawl on a target in any spelling                                   *)
(***************************************************************************)
SpecSpelled == InitOn(Targets \cup Spellings) /\ [][Next]_vars

\* the page a URL names: for http(s) an empty path names the same page as "/"
PageOf(u) ==
    LET parsed == urlparse(u)
    IN  <<parsed.scheme, parsed.netloc,
          IF parsed.path = <<>> THEN <<"/">> ELSE parsed.path, parsed.query>>

\* C13: during one audit the crawl never visits the same page twice:
\* visited_urls holds no two entries for the same page, for any link graph
\* and any spelling of the target URL
NoPageVisitedTwice ==
    \A u, v \in audit.visited_urls : PageOf(u) = PageOf(v) => u = v

MaxClock == SessionTtl + 1

is_expired_inclusive(session) == clock >= session.expires_at

\* Session.is_expired
is_expired(session) == clock > session.expires_at

\* create_session: the record and its artifact directory
Session(now) ==
    [status |-> "started", expires_at |-> now + SessionTtl, is_authenticated |-> FALSE]

InTable(sid) == _sessions[sid] # Absent

\* _cleanup_session: the record is popped and its directory removed
CleanupSessions(ids) ==
    /\ _sessions' = [sid \in Sids |-> IF sid \in ids THEN Absent ELSE _sessions[sid]]
    /\ session_dirs' = session_dirs \ {sid \in ids : InTable(sid)}
    /\ state_files' = state_files \ {sid \in ids : InTable(sid)}

GotStale(sid) == InTable(sid)

\* get_session returns the record: it is in the table and not expired
Got(sid) == InTable(sid) /\ ~is_expired(_sessions[sid])

\* get_session's effect: an expired record is cleaned up
get_session(sid) ==
    IF InTable(sid) /\ is_expired(_sessions[sid])
    THEN CleanupSessions({sid})
    ELSE UNCHANGED <<_sessions, session_dirs, state_files>>

MarksStale(sid) == InTable(sid)

\* mark_authenticated returns True: the record is there and not expired
Marks(sid) == InTable(sid) /\ ~is_expired(_sessions[sid])

\* mark_authenticated: the table after the call
mark_authenticated(sid) ==
    IF Marks(sid)
    THEN [_sessions EXCEPT ![sid].is_authenticated = TRUE,
                           ![sid].status = "authenticated"]
    ELSE _sessions

\* time passes
Tick ==
    /\ clock < MaxClock
    /\ clock' = clock + 1
    /\ UNCHANGED <<issued, _sessions, session_dirs, state_files, _contexts, _pages,
                   _initialized, _audits, calls, marked>>
    /\ reply' = NoReply
    /\ UNCHANGED <<runVars, partVars>>

\* POST /api/sessions/start with a valid URL: create_session
StartSession ==
    /\ issued + 1 \in Sids
    /\ issued' = issued + 1
    /\ _sessions' = [_sessions EXCEPT ![issued + 1] = Session(clock)]
    /\ session_dirs' = session_dirs \cup {issued + 1}
    /\ UNCHANGED <<clock, state_files, _contexts, _pages, _initialized, _audits,
                   calls, marked>>
    /\ reply' = NoReply
    /\ UNCHANGED <<runVars, partVars>>

\* delete_session, which no request handler calls
DeleteSession ==
    /\ \E sid \in Sids :
         /\ InTable(sid)
         /\ CleanupSessions({sid})
    /\ UNCHANGED <<clock, issued, _contexts, _pages, _initialized, _audits, calls,
                   marked>>
    /\ reply' = NoReply
    /\ UNCHANGED <<runVars, partVars>>

\* cleanup_expired_sessions, run by the cleanup loop
Sweep ==
    /\ \E sid \in Sids : InTable(sid) /\ is_expired(_sessions[sid])
    /\ CleanupSessions({sid \in Sids : InTable(sid) /\ is_expired(_sessions[sid])})
    /\ UNCHANGED <<clock, issued, _contexts, _pages, _initialized, _audits, calls,
                   marked>>
    /\ reply' = NoReply
    /\ UNCHANGED <<runVars, partVars>>

\* BrowserManager.shutdown, taken as one step: every registered context is
\* closed with its page, then the browser; the awaits between its closes are
\* not interleaved with other handlers
Shutdown ==
    /\ _initialized \/ _contexts # {}
    /\ \A c \in calls : c.op = "audit_task"
    /\ _pages' = _pages \ _contexts
    /\ _contexts' = {}
    /\ _initialized' = FALSE
    /\ reply' = NoReply
    /\ UNCHANGED <<clock, issued, _sessions, session_dirs, state_files, _audits, calls,
                   marked>>
    /\ UNCHANGED <<runVars, partVars>>

(***************************************************************************)
(* Request handlers and audit tasks                                        *)
(***************************************************************************)
Call(op, sid, at) == [op |-> op, sid |-> sid, pc |-> at]

\* a handler or task ends with an answer
End(c, code, detail) ==
    /\ calls' = calls \ {c}
    /\ reply' = [op |-> c.op, sid |-> c.sid, code |-> code, detail |-> detail]

\* a handler or task is suspended at its next await
Await(c, at) ==
    /\ calls' = (calls \ {c}) \cup {Call(c.op, c.sid, at)}
    /\ reply' = NoReply

\* a request arrives for an id, known or not, and its handler runs to its
\* first await
Arrives(op, sid) == Call(op, sid, "start")

\* POST /api/audits/run: the handler has no await; it ends by scheduling
\* run_audit_async with asyncio.create_task
RunAudit ==
    /\ Cardinality(calls) < MaxCalls
    /\ \E sid \in Sids :
         LET c == Arrives("run_audit", sid) IN
         /\ get_session(c.sid)
         /\ IF ~Got(c.sid)
            THEN End(c, 404, "Session not found or expired") /\ UNCHANGED _audits
            ELSE IF ~_sessions[c.sid].is_authenticated
            THEN End(c, 400, "Session not authenticated. Complete login first.") /\ UNCHANGED _audits
            ELSE \E valid \in BOOLEAN :
                   IF ~valid
                   THEN End(c, 400, "Invalid URL") /\ UNCHANGED _audits
                   ELSE /\ _audits' = _audits \cup {c.sid}
                        /\ calls' = (calls \ {c}) \cup {Call("audit_task", c.sid, "start")}
                        /\ reply' = [op |-> c.op, sid |-> c.sid, code |-> 200,
                                     detail |-> "queued"]
    /\ UNCHANGED <<clock, issued, _contexts, _pages, _initialized, marked>>
    /\ UNCHANGED <<runVars, partVars>>

\* the checks of create_authenticated_context, made before its first await
MintChecksOfRecord(sid) ==
    IF ~InTable(sid) THEN "Session not found"
    ELSE IF ~_sessions[sid].is_authenticated THEN "Session is not authenticated"
    ELSE IF sid \notin state_files THEN "Storage state not found"
    ELSE "ok"

MintChecks(sid) ==
    IF ~Got(sid) THEN "Session not found"
    ELSE IF ~_sessions[sid].is_authenticated THEN "Session is not authenticated"
    ELSE IF sid \notin state_files THEN "Storage state not found"
    ELSE "ok"

\* the audit task starts: run() calls create_authenticated_context, which
\* checks the session and then awaits the launch or the new context
AuditTaskStart ==
    /\ \E c \in calls :
         /\ c.op = "audit_task" /\ c.pc = "start"
         /\ get_session(c.sid)
         /\ IF MintChecks(c.sid) # "ok" THEN End(c, 0, MintChecks(c.sid))
            ELSE IF ~_initialized THEN Await(c, "mint_launch")
            ELSE Await(c, "mint_new_context")
    /\ UNCHANGED <<clock, issued, _contexts, _pages, _initialized, _audits, marked>>
    /\ UNCHANGED <<runVars, partVars>>

\* initialize() resolves for create_authenticated_context
AuditTaskLaunch ==
    /\ \E c \in calls :
         /\ c.op = "audit_task" /\ c.pc = "mint_launch"
         /\ \/ _initialized' = TRUE /\ Await(c, "mint_new_context")
            \/ UNCHANGED _initialized /\ End(c, 0, "launch failed")
    /\ UNCHANGED <<clock, issued, _sessions, session_dirs, state_files, _contexts,
                   _pages, _audits, marked>>
    /\ UNCHANGED <<runVars, partVars>>

\* new_context(storage_state=...) resolves: the authenticated context
AuditTaskNewContext ==
    /\ \E c \in calls :
         /\ c.op = "audit_task" /\ c.pc = "mint_new_context"
         /\ \/ End(c, 0, "context")
            \/ End(c, 0, "new_context failed")
    /\ UNCHANGED <<clock, issued, _sessions, session_dirs, state_files, _contexts,
                   _pages, _initialized, _audits, marked>>
    /\ UNCHANGED <<runVars, partVars>>

\* GET /api/sessions/{id}/open-login up to its first await: the handler's
\* get_session, then open_login_page (get_session, get_context) and, with no
\* context registered, create_context
OpenLoginStart ==
    /\ Cardinality(calls) < MaxCalls
    /\ \E sid \in Sids :
         LET c == Arrives("open_login", sid) IN
         /\ get_session(c.sid)
         /\ IF ~Got(c.sid) THEN End(c, 404, "Session not found or expired")
            ELSE IF c.sid \in _contexts THEN Await(c, "page")
            ELSE IF ~_initialized THEN Await(c, "launch")
            ELSE Await(c, "new_context")
    /\ UNCHANGED <<clock, issued, _contexts, _pages, _initialized, _audits, marked>>
    /\ UNCHANGED <<runVars, partVars>>

\* initialize() resolves for create_context, which then reads the session
OpenLoginLaunch ==
    /\ \E c \in calls :
         /\ c.op = "open_login" /\ c.pc = "launch"
         /\ \/ /\ _initialized' = TRUE
               /\ get_session(c.sid)
               /\ IF Got(c.sid) THEN Await(c, "new_context")
                  ELSE End(c, 500, "Failed to open browser")
            \/ /\ UNCHANGED <<_initialized, _sessions, session_dirs, state_files>>
               /\ End(c, 500, "Failed to open browser")
    /\ UNCHANGED <<clock, issued, _contexts, _pages, _audits, marked>>
    /\ UNCHANGED <<runVars, partVars>>

\* new_context() resolves for create_context: the context is registered
OpenLoginNewContext ==
    /\ \E c \in calls :
         /\ c.op = "open_login" /\ c.pc = "new_context"
         /\ \/ _contexts' = _contexts \cup {c.sid} /\ Await(c, "page")
            \/ UNCHANGED _contexts /\ End(c, 500, "Failed to open browser")
    /\ UNCHANGED <<clock, issued, _sessions, session_dirs, state_files, _pages,
                   _initialized, _audits, marked>>
    /\ UNCHANGED <<runVars, partVars>>

\* context.new_page() and the goto (whose failure is logged) resolve: the
\* page is registered
OpenLoginPage ==
    /\ \E c \in calls :
         /\ c.op = "open_login" /\ c.pc = "page"
         /\ \/ _pages' = _pages \cup {c.sid} /\ End(c, 200, "Browser window opened")
            \/ UNCHANGED _pages /\ End(c, 500, "Failed to open browser")
    /\ UNCHANGED <<clock, issued, _sessions, session_dirs, state_files, _contexts,
                   _initialized, _audits, marked>>
    /\ UNCHANGED <<runVars, partVars>>

\* POST /api/sessions/{id}/mark-logged-in up to its first await: the
\* handler's get_session, then save_storage_state (get_session, get_context)
MarkLoggedInStart ==
    /\ Cardinality(calls) < MaxCalls
    /\ \E sid \in Sids :
         LET c == Arrives("mark_logged_in", sid) IN
         /\ get_session(c.sid)
         /\ IF ~Got(c.sid) THEN End(c, 404, "Session not found or expired")
            ELSE IF c.sid \notin _contexts THEN End(c, 500, "Failed to save session")
            ELSE Await(c, "saving")
    /\ UNCHANGED <<clock, issued, _contexts, _pages, _initialized, _audits, marked>>
    /\ UNCHANGED <<runVars, partVars>>

\* the handler after a save that returned True: mark_authenticated, whose
\* result is not read, then close_context up to its first await
AfterSave(c) ==
    /\ _sessions' = mark_authenticated(c.sid)
    /\ marked' = IF Marks(c.sid) THEN marked \cup {c.sid} ELSE marked
    /\ _pages' = _pages \ {c.sid}
    /\ _contexts' = _contexts \ {c.sid}
    /\ Await(c, "closing")

MarkLoggedInSavedUnchecked ==
    /\ \E c \in calls :
         /\ c.op = "mark_logged_in" /\ c.pc = "saving"
         /\ \/ /\ c.sid \in session_dirs
               /\ state_files' = state_files \cup {c.sid}
               /\ UNCHANGED session_dirs
               /\ AfterSave(c)
            \/ /\ UNCHANGED <<session_dirs, state_files>>
               /\ AfterSave(c)
    /\ UNCHANGED <<clock, issued, _initialized, _audits>>
    /\ UNCHANGED <<runVars, partVars>>

\* context.storage_state(path=...) resolves: the file is written into the
\* session's directory, or the save returns False
MarkLoggedInSaved ==
    /\ \E c \in calls :
         /\ c.op = "mark_logged_in" /\ c.pc = "saving"
         /\ \/ /\ c.sid \in session_dirs
               /\ state_files' = state_files \cup {c.sid}
               /\ UNCHANGED session_dirs
               /\ AfterSave(c)
            \/ /\ End(c, 500, "Failed to save session state")
               /\ UNCHANGED <<_sessions, session_dirs, state_files, _contexts, _pages,
                              marked>>
    /\ UNCHANGED <<clock, issued, _initialized, _audits>>
    /\ UNCHANGED <<runVars, partVars>>

\* close_context's page.close() and context.close() resolve; their failures
\* are logged
MarkLoggedInClosed ==
    /\ \E c \in calls :
         /\ c.op = "mark_logged_in" /\ c.pc = "closing"
         /\ End(c, 200, "Session authenticated")
    /\ UNCHANGED <<clock, issued, _sessions, session_dirs, state_files, _contexts,
                   _pages, _initialized, _audits, marked>>
    /\ UNCHANGED <<runVars, partVars>>

NextServices ==
    \/ Tick
    \/ StartSession
    \/ Sweep
    \/ Shutdown
    \/ RunAudit
    \/ AuditTaskStart
    \/ AuditTaskLaunch
    \/ AuditTaskNewContext
    \/ OpenLoginStart
    \/ OpenLoginLaunch
    \/ OpenLoginNewContext
    \/ OpenLoginPage
    \/ MarkLoggedInStart
    \/ MarkLoggedInSaved
    \/ MarkLoggedInClosed

\* the services with no audit running: the record of the audit stays as created
InitSessions ==
    /\ InitOn(Targets)
    /\ audit.options = [max_pages |-> 1, include_accessibility |-> FALSE,
                        screenshot_on_error |-> FALSE]

SpecSessions == InitSessions /\ [][NextServices]_vars

\* the services when a caller of delete_session is added to them
NextWithDelete == NextServices \/ DeleteSession

SpecDelete == InitSessions /\ [][NextWithDelete]_vars

(***************************************************************************)
(* Claims about the sessions and the browser manager                       *)
(***************************************************************************)
\* the answer with which create_authenticated_context returned or raised
MintAnswer(sid, detail) == [op |-> "audit_task", sid |-> sid, code |-> 0, detail |-> detail]

\* the awaits of create_authenticated_context, past its checks
MintAwaits == {"mint_launch", "mint_new_context"}

\* create_authenticated_context is in flight for sid, past its checks
Minting(cs, sid) == \E at \in MintAwaits : Call("audit_task", sid, at) \in cs

\* C15: create_authenticated_context goes on to launch the browser or to
\* create a context only when, at the call, the session is in the table, is
\* not expired, is authenticated and its storage state file exists; otherwise
\* it raises at once, with no browser launched and no context created; and a
\* context is only ever returned by a call that went on
MintOnlyAfterChecks ==
    [][\A sid \in Sids :
         LET c == Call("audit_task", sid, "start")
             called == c \in calls /\ c \notin calls'
             passes == /\ InTable(sid)
                       /\ clock <= _sessions[sid].expires_at
                       /\ _sessions[sid].is_authenticated
                       /\ sid \in state_files
             went == \E at \in MintAwaits : Call("audit_task", sid, at) \in calls' \ calls
             launched == Call("audit_task", sid, "mint_launch") \in calls \ calls'
         IN  /\ (called /\ passes) => Minting(calls', sid)
             /\ (called /\ ~passes) =>
                    /\ ~went
                    /\ reply' \in {MintAnswer(sid, "Session not found"),
                                  MintAnswer(sid, "Session is not authenticated"),
                                  MintAnswer(sid, "Storage state not found")}
                    /\ _initialized' = _initialized
             /\ (went /\ ~launched) => (called /\ passes)
             /\ (reply' = MintAnswer(sid, "context") /\ calls' # calls) =>
                    Call("audit_task", sid, "mint_new_context") \in calls
    ]_vars

\* an authenticated context was returned for a session
ContextMinted == \E sid \in Sids : reply = MintAnswer(sid, "context")

\* the answer of the run-audit handler
RunAnswer(sid, code, detail) == [op |-> "run_audit", sid |-> sid, code |-> code, detail |-> detail]

\* C16: run-audit creates an audit record and schedules the audit task only
\* for a session that, at the call, is in the table, is not expired and is
\* authenticated; for an unknown or expired session it answers 404 'Session
\* not found or expired', for an unauthenticated one 400, and in both cases
\* no audit record is created and no task scheduled; records and tasks are
\* created by nothing else
RunAuditOnlyAuthenticated ==
    [][\A sid \in Sids :
         LET task == Call("audit_task", sid, "start")
             live == InTable(sid) /\ clock <= _sessions[sid].expires_at
             created == sid \in _audits' /\ task \in calls'
             nothing == _audits' = _audits /\ (task \in calls' => task \in calls)
         IN  /\ (reply'.op = "run_audit" /\ reply'.sid = sid) =>
                    IF ~live
                    THEN reply' = RunAnswer(sid, 404, "Session not found or expired") /\ nothing
                    ELSE IF ~_sessions[sid].is_authenticated
                    THEN reply' = RunAnswer(sid, 400, "Session not authenticated. Complete login first.") /\ nothing
                    ELSE \/ reply' = RunAnswer(sid, 200, "queued") /\ created
                         \/ reply' = RunAnswer(sid, 400, "Invalid URL") /\ nothing
             /\ (sid \in _audits' \ _audits \/ task \in calls' \ calls) =>
                    reply' = RunAnswer(sid, 200, "queued")
    ]_vars

\* an audit was accepted for one session and one was refused for another
\* session, which had been created and is gone
RunRefusedForGoneSession ==
    \E sid, other \in Sids :
        /\ other \in _audits
        /\ sid <= issued /\ sid \notin _audits
        /\ reply = RunAnswer(sid, 404, "Session not found or expired")

\* the mark-logged-in handler is suspended in save_storage_state for sid
Saving(sid) == Call("mark_logged_in", sid, "saving") \in calls

\* C17: an authenticated context is returned only for a session that
\* mark_authenticated marked before; mark_authenticated marks a session only
\* in the step in which save_storage_state, called with the session's login
\* context registered, has written the storage state; and a mark-logged-in
\* that answers 500 leaves the session as it was
SaveThenMarkThenMint ==
    /\ [](\A sid \in Sids :
            _sessions[sid].is_authenticated => (sid \in marked /\ sid \in state_files))
    /\ [][\A sid \in Sids :
            /\ (sid \in marked' \ marked
                    \/ (_sessions'[sid].is_authenticated /\ ~_sessions[sid].is_authenticated))
                  => (Saving(sid) /\ sid \in _contexts /\ sid \in state_files'
                        /\ sid \in marked' /\ _sessions'[sid].is_authenticated)
            /\ (reply' = MintAnswer(sid, "context") /\ calls' # calls) => sid \in marked
            /\ (reply'.op = "mark_logged_in" /\ reply'.sid = sid /\ reply'.code = 500)
                  => (_sessions' = _sessions /\ marked' = marked)
       ]_vars

\* an authenticated context was returned for a session that is still
\* authenticated
MintedAfterLogin ==
    \E sid \in Sids :
        /\ reply = MintAnswer(sid, "context")
        /\ _sessions[sid].is_authenticated
        /\ sid \in marked

\* the handlers that start with get_session and answer 404 when it returns None
Getters == {"open_login", "mark_logged_in", "run_audit"}

Closing(sid) == Call("mark_logged_in", sid, "closing") \in calls

\* C19: the expiration time of a session is the one set at its creation for
\* as long as the session is in the table; mark_authenticated called for a
\* session whose expiration time has passed returns False and changes no
\* session, and called for any session changes no other session; an expired
\* session stays as it is until it is removed, it never becomes authenticated,
\* and a removed session never comes back
ExpiryIsTerminal ==
    [][\A sid \in Sids :
         LET expired == InTable(sid) /\ clock > _sessions[sid].expires_at
             marking == Saving(sid) /\ ~Saving(sid)' /\ Closing(sid)' /\ reply' = NoReply
         IN  /\ (~InTable(sid) /\ InTable(sid)') =>
                    (sid = issued + 1 /\ _sessions'[sid].expires_at = clock + SessionTtl)
             /\ (InTable(sid) /\ InTable(sid)') =>
                    _sessions'[sid].expires_at = _sessions[sid].expires_at
             /\ (marking /\ (expired \/ ~InTable(sid))) =>
                    (_sessions' = _sessions /\ marked' = marked)
             /\ marking =>
                    \A other \in Sids \ {sid} : _sessions'[other] = _sessions[other]
             /\ expired =>
                    /\ _sessions'[sid] \in {_sessions[sid], Absent}
                    /\ InTable(sid)' => clock' > _sessions'[sid].expires_at
             /\ (sid <= issued /\ ~InTable(sid)) => ~InTable(sid)'
    ]_vars

\* mark_authenticated was called for a session whose expiration time had
\* passed while its storage state was being saved: the session is not
\* authenticated, and another session is in the table
ExpiredMarkRefused ==
    \E sid \in Sids, other \in Sids :
        /\ other # sid /\ InTable(other)
        /\ Closing(sid) /\ sid \in state_files
        /\ InTable(sid) /\ clock > _sessions[sid].expires_at
        /\ ~_sessions[sid].is_authenticated /\ _sessions[sid].status = "started"

\* C20: when a session is deleted (delete_session, a get_session that finds
\* it expired, the expiry sweep) its login context and page are closed and
\* taken out of the browser manager's registry: after the step that removes
\* a session from the table, no context and no page is registered for its id
ClosedOnDeletion ==
    [][\A sid \in Sids :
         (InTable(sid) /\ ~InTable(sid)') => (sid \notin _contexts' /\ sid \notin _pages')
    ]_vars

(***************************************************************************)
(* The cleanup loop of the session manager                                 *)
(***************************************************************************)
\* start_cleanup_loop: a new task runs cleanup_loop and is the one remembered
StartCleanupLoop ==
    /\ Len(loops) < MaxLoops
    /\ loops' = Append(loops, "sleeping")
    /\ _cleanup_task' = Len(loops) + 1
    /\ stopped' = FALSE
    /\ ran' = 0
    /\ UNCHANGED <<runVars, storeVars, previewVars, loginVars, sessVars, initVars, rateVars, pureVars>>

\* stop_cleanup_loop: the remembered task, if any, is cancelled and forgotten
StopCleanupLoop ==
    /\ IF _cleanup_task # 0
       THEN loops' = [loops EXCEPT ![_cleanup_task] =
                         IF @ = "sleeping" THEN "cancelling" ELSE @]
       ELSE UNCHANGED loops
    /\ _cleanup_task' = 0
    /\ stopped' = TRUE
    /\ ran' = 0
    /\ UNCHANGED <<runVars, storeVars, previewVars, loginVars, sessVars, initVars, rateVars, pureVars>>

\* the sleep of a loop resolves: cleanup_expired_sessions runs, and the loop
\* sleeps again
LoopSweep ==
    /\ \E id \in DOMAIN loops :
         /\ loops[id] = "sleeping"
         /\ ran' = id
    /\ CleanupSessions({sid \in Sids : InTable(sid) /\ is_expired(_sessions[sid])})
    /\ reply' = NoReply
    /\ UNCHANGED <<clock, issued, _contexts, _pages, _initialized, _audits, calls, marked>>
    /\ UNCHANGED <<_cleanup_task, loops, stopped>>
    /\ UNCHANGED <<runVars, storeVars, previewVars, loginVars, initVars, rateVars, pureVars>>

\* a cancelled loop is resumed with CancelledError in its sleep, which its
\* "except Exception" does not catch: the task ends
LoopCancelled ==
    /\ \E id \in DOMAIN loops :
         /\ loops[id] = "cancelling"
         /\ loops' = [loops EXCEPT ![id] = "done"]
    /\ UNCHANGED <<_cleanup_task, stopped, ran>>
    /\ UNCHANGED <<runVars, storeVars, previewVars, loginVars, sessVars, initVars, rateVars, pureVars>>

\* the session manager with its cleanup loop, sessions that are created,
\* read by run-audit and deleted, and time
NextCleanup ==
    \/ StartCleanupLoop
    \/ StopCleanupLoop
    \/ LoopSweep
    \/ LoopCancelled
    \/ Tick
    \/ StartSession
    \/ DeleteSession
    \/ RunAudit

SpecCleanup == InitSessions /\ [][NextCleanup]_vars

\* C21: after stop_cleanup_loop has returned, and until a loop is started
\* again, no loop executes a sweep, however often start_cleanup_loop was
\* called before; and a session record that a sweep, a get or a delete has
\* removed is not in the table again, so it is removed at most once
CleanupLoopCancellable ==
    /\ [](stopped => ran = 0)
    /\ [][\A sid \in Sids : (sid <= issued /\ ~InTable(sid)) => ~InTable(sid)']_vars

(***************************************************************************)
(* BrowserManager.initialize                                               *)
(***************************************************************************)
\* the session part of the services, which initialize leaves alone
tableVars == <<clock, issued, _sessions, session_dirs, state_files, _contexts, _pages,
               _audits, calls, reply, marked>>

\* a caller calls initialize: it returns at once when _initialized is set,
\* and otherwise awaits async_playwright().start()
InitializeCall ==
    /\ \E t \in Callers :
         /\ inits[t] = "idle"
         /\ inits' = [inits EXCEPT ![t] = IF _initialized THEN "returned" ELSE "starting"]
    /\ UNCHANGED <<_initialized, drivers_started, browsers_launched>>
    /\ UNCHANGED <<runVars, storeVars, previewVars, loginVars, tableVars, loopVars, rateVars, pureVars>>

\* async_playwright().start() resolves: the driver is stored and
\* chromium.launch awaited, or the call raises
DriverStarted ==
    /\ \E t \in Callers :
         /\ inits[t] = "starting"
         /\ \/ /\ drivers_started' = drivers_started + 1
               /\ inits' = [inits EXCEPT ![t] = "launching"]
            \/ /\ UNCHANGED drivers_started
               /\ inits' = [inits EXCEPT ![t] = "returned"]
    /\ UNCHANGED <<_initialized, browsers_launched>>
    /\ UNCHANGED <<runVars, storeVars, previewVars, loginVars, tableVars, loopVars, rateVars, pureVars>>

\* chromium.launch resolves: the browser is stored and _initialized set, or
\* the call raises
BrowserLaunched ==
    /\ \E t \in Callers :
         /\ inits[t] = "launching"
         /\ inits' = [inits EXCEPT ![t] = "returned"]
         /\ \/ browsers_launched' = browsers_launched + 1 /\ _initialized' = TRUE
            \/ UNCHANGED <<browsers_launched, _initialized>>
    /\ UNCHANGED drivers_started
    /\ UNCHANGED <<runVars, storeVars, previewVars, loginVars, tableVars, loopVars, rateVars, pureVars>>

\* shutdown, with no context registered: the stored browser is closed, the
\* stored driver stopped; the callers that returned may call again
ShutdownBrowser ==
    /\ drivers_started > 0 \/ \E t \in Callers : inits[t] = "returned"
    /\ _initialized' = FALSE
    /\ drivers_started' = 0
    /\ browsers_launched' = 0
    /\ inits' = [t \in Callers |-> IF inits[t] = "returned" THEN "idle" ELSE inits[t]]
    /\ UNCHANGED <<runVars, storeVars, previewVars, loginVars, tableVars, loopVars, rateVars, pureVars>>

NextInitialize ==
    \/ InitializeCall
    \/ DriverStarted
    \/ BrowserLaunched
    \/ ShutdownBrowser

SpecInitialize == InitSessions /\ [][NextInitialize]_vars

\* C22: between two shutdowns the driver is started at most once and the
\* browser launched at most once, whatever callers call initialize and
\* however their calls interleave
InitializeOnce == drivers_started <= 1 /\ browsers_launched <= 1

(***************************************************************************)
(* The rate limiter                                                        *)
(***************************************************************************)
\* the rate limiter is followed for two minutes
MaxTime == 2 * Window

InWindowInclusive(t, at) == t >= at - Window

\* _cleanup_old_requests keeps t when t > now - timedelta(minutes=1)
InWindow(t, at) == t > at - Window

\* [t for t in self.requests[ip] if t > cutoff]
RECURSIVE Kept(_, _)
Kept(ts, at) ==
    IF ts = <<>> THEN <<>>
    ELSE IF InWindow(Head(ts), at) THEN <<Head(ts)>> \o Kept(Tail(ts), at)
    ELSE Kept(Tail(ts), at)

\* variant: the admission is recorded before the test of the limit
is_allowed_recording_all ==
    /\ \E ip \in Ips :
         LET kept == Kept(requests[ip], time)
             allowed == Len(kept) < Limit
         IN  /\ requests' = [requests EXCEPT ![ip] = Append(kept, time)]
             /\ verdict' = [ip |-> ip, allowed |-> allowed,
                            dropped |-> Len(requests[ip]) - Len(kept)]
    /\ remaining' = NoRemaining
    /\ UNCHANGED time
    /\ UNCHANGED <<runVars, storeVars, previewVars, loginVars, sessVars, loopVars, initVars, pureVars>>

\* is_allowed(ip)
is_allowed ==
    /\ \E ip \in Ips :
         LET kept == Kept(requests[ip], time)
             allowed == Len(kept) < Limit
         IN  /\ requests' = [requests EXCEPT ![ip] =
                                IF allowed THEN Append(kept, time) ELSE kept]
             /\ verdict' = [ip |-> ip, allowed |-> allowed,
                            dropped |-> Len(requests[ip]) - Len(kept)]
    /\ remaining' = NoRemaining
    /\ UNCHANGED time
    /\ UNCHANGED <<runVars, storeVars, previewVars, loginVars, sessVars, loopVars, initVars, pureVars>>

\* time passes
Advance ==
    /\ time < MaxTime
    /\ time' = time + 1
    /\ UNCHANGED <<requests, verdict, remaining>>
    /\ UNCHANGED <<runVars, storeVars, previewVars, loginVars, sessVars, loopVars, initVars, pureVars>>

NextRate == is_allowed \/ Advance

SpecRate == InitSessions /\ [][NextRate]_vars

\* C23: a request of an IP that has Limit admissions less than a minute old
\* is rejected; a request made a minute or more after the earliest recorded
\* admission of its IP is admitted; and no IP has more than Limit admissions
\* recorded
RateWindow ==
    /\ [](\A ip \in Ips : Len(requests[ip]) <= Limit)
    /\ [][time' = time =>
            LET ip == verdict'.ip
                recent == {k \in DOMAIN requests[ip] : time - requests[ip][k] < Window}
            IN  /\ Cardinality(recent) >= Limit => ~verdict'.allowed
                /\ (requests[ip] # <<>> /\ time - requests[ip][1] >= Window)
                       => verdict'.allowed
                /\ verdict'.allowed => requests'[ip][Len(requests'[ip])] = time
                /\ \A other \in Ips \ {ip} : requests'[other] = requests[other]
       ]_vars

\* a request was admitted into a full list because admissions had left the
\* window: the list is full again
SlotReopened ==
    \E ip \in Ips :
        /\ verdict.ip = ip /\ verdict.allowed /\ verdict.dropped > 0
        /\ Len(requests[ip]) = Limit

(***************************************************************************)
(* The report: utils/scoring.py and ReportBuilder                          *)
(***************************************************************************)
\* everything but the functions without state, with no audit running
InitQuiet ==
    /\ InitAudit(Targets)
    /\ audit.options = [max_pages |-> 1, include_accessibility |-> FALSE,
                        screenshot_on_error |-> FALSE]
    /\ InitServices
    /\ InitLoop /\ InitInitialize /\ InitRate /\ InitLogin /\ InitPreview /\ InitStore

\* n findings, each with a URL of its own (URLs are numbered, the target's is 0)
Found(n) == [k \in 1..n |-> k]

\* n console errors (ConsoleError.page_url), two on each page
ConsoleErrors(n) == [k \in 1..n |-> (k + 1) \div 2]

\* the flows of an audit with n pages in error (UIFlowResult): one page that is
\* ok, the pages in error, one page with a warning
UiFlows(n) ==
    [k \in 1..(n + 2) |->
        [page_url |-> k,
         status |-> IF k = 1 THEN "ok" ELSE IF k = n + 2 THEN "warning" ELSE "error"]]

\* n violations (AccessibilityViolation), all of one impact
Violations(n, impact) == [k \in 1..n |-> [impact |-> impact, page_url |-> k]]

\* the numbers of findings tried: none, a few, and around the number at which
\* the penalty of the category reaches its cap
ConsoleCounts == {0, 3, 10, 11}
NetworkCounts == {0, 2, 6, 7}
UiErrorCounts == {0, 1, 5, 6}
A11yCounts == {0, 1, 10, 11}
SlowCounts == {0, 1, 10, 11}
LargeCounts == {0, 1, 4}

\* audit.security_hygiene
Hygienes ==
    {NoHygiene} \cup
    {[set |-> TRUE, https_ok |-> h, headers_missing |-> Found(m), cookie_flags_issues |-> Found(c)] :
        h \in BOOLEAN, m \in {0, 6}, c \in {0, 1}}

\* the audit records handed to the report builder
Audits ==
    {[console_errors |-> ConsoleErrors(c), network_failures |-> Found(n),
      ui_flows |-> UiFlows(u), security_hygiene |-> s,
      accessibility_violations |-> Violations(v, impact),
      slow_endpoints |-> Found(e), large_assets |-> Found(l), url |-> 0] :
        c \in ConsoleCounts, n \in NetworkCounts, u \in UiErrorCounts, s \in Hygienes,
        v \in A11yCounts, impact \in {"serious", "moderate"},
        e \in SlowCounts, l \in LargeCounts}

calculate_score_uncapped(console_errors, network_failures, ui_errors, security_issues, accessibility_violations, slow_endpoints) ==
    Max(0, 100 - console_errors * 2 - network_failures * 3 - ui_errors * 4
               - security_issues * 3 - accessibility_violations - slow_endpoints)

\* utils/scoring.py
calculate_score(console_errors, network_failures, ui_errors, security_issues, accessibility_violations, slow_endpoints) ==
    LET console_penalty == Min(console_errors * 2, 20)
        network_penalty == Min(network_failures * 3, 20)
        ui_penalty      == Min(ui_errors * 4, 20)
        security_penalty == Min(security_issues * 3, 20)
        a11y_penalty    == Min(accessibility_violations, 10)
        perf_penalty    == Min(slow_endpoints, 10)
    IN  Max(0, 100 - console_penalty - network_penalty - ui_penalty
                   - security_penalty - a11y_penalty - perf_penalty)

get_grade(score) ==
    IF score >= 90 THEN "A"
    ELSE IF score >= 80 THEN "B"
    ELSE IF score >= 70 THEN "C"
    ELSE IF score >= 60 THEN "D"
    ELSE "F"

\* [f for f in self.audit.ui_flows if f.status == "error"]
IsError(f) == f.status = "error"
UiErrors(a) == SelectSeq(a.ui_flows, IsError)

_count_security_issues_once(a) ==
    IF ~a.security_hygiene.set THEN 0
    ELSE (IF ~a.security_hygiene.https_ok THEN 1 ELSE 0)
         + Len(a.security_hygiene.headers_missing)
         + Len(a.security_hygiene.cookie_flags_issues)

\* ReportBuilder._count_security_issues
_count_security_issues(a) ==
    IF ~a.security_hygiene.set THEN 0
    ELSE (IF ~a.security_hygiene.https_ok THEN 2 ELSE 0)
         + Len(a.security_hygiene.headers_missing)
         + Len(a.security_hygiene.cookie_flags_issues)

CategoryScore(category, score, max_score, issues_count) ==
    [category |-> category, score |-> score, max_score |-> max_score,
     issues_count |-> issues_count]

\* variant: the Performance category counts the slow endpoints only
_calculate_category_scores_slow_only(a) ==
    LET ui_errors       == Len(UiErrors(a))
        security_issues == _count_security_issues(a)
        perf_issues     == Len(a.slow_endpoints)
    IN  << CategoryScore("Console Errors", Max(0, 20 - Len(a.console_errors) * 2), 20,
                         Len(a.console_errors)),
           CategoryScore("Network/API", Max(0, 20 - Len(a.network_failures) * 3), 20,
                         Len(a.network_failures)),
           CategoryScore("UI Flows", Max(0, 20 - ui_errors * 4), 20, ui_errors),
           CategoryScore("Security", Max(0, 20 - security_issues * 3), 20, security_issues),
           CategoryScore("Performance", Max(0, 10 - perf_issues), 10, perf_issues),
           CategoryScore("Accessibility", Max(0, 10 - Len(a.accessibility_violations)), 10,
                         Len(a.accessibility_violations)) >>

\* ReportBuilder._calculate_category_scores
_calculate_category_scores(a) ==
    LET ui_errors       == Len(UiErrors(a))
        security_issues == _count_security_issues(a)
        perf_issues     == Len(a.slow_endpoints) + Len(a.large_assets)
    IN  << CategoryScore("Console Errors", Max(0, 20 - Len(a.console_errors) * 2), 20,
                         Len(a.console_errors)),
           CategoryScore("Network/API", Max(0, 20 - Len(a.network_failures) * 3), 20,
                         Len(a.network_failures)),
           CategoryScore("UI Flows", Max(0, 20 - ui_errors * 4), 20, ui_errors),
           CategoryScore("Security", Max(0, 20 - security_issues * 3), 20, security_issues),
           CategoryScore("Performance", Max(0, 10 - perf_issues), 10, perf_issues),
           CategoryScore("Accessibility", Max(0, 10 - Len(a.accessibility_violations)), 10,
                         Len(a.accessibility_violations)) >>

\* s[:n]
FirstOf(s, n) == SubSeq(s, 1, Min(n, Len(s)))

\* the elements of s
Elements(s) == {s[k] : k \in DOMAIN s}

\* list(set(s)): the distinct elements of s; the order in which Python lists a
\* set is not specified, they are listed here by first occurrence
RECURSIVE Distinct(_)
Distinct(s) ==
    IF s = <<>> THEN <<>>
    ELSE LET rest == Distinct(FirstOf(s, Len(s) - 1))
             last == s[Len(s)]
         IN  IF last \in Elements(rest) THEN rest ELSE Append(rest, last)

RecommendedFix(category, severity, affected_urls) ==
    [category |-> category, severity |-> severity, affected_urls |-> affected_urls]

\* [v for v in violations if v.impact in ("critical", "serious")]
IsCritical(v) == v.impact \in {"critical", "serious"}

PageUrls(s) == [k \in DOMAIN s |-> s[k].page_url]

\* ReportBuilder._generate_recommendations: the fixes.append(...) of each test
\* that passes, in the order of the tests
_generate_recommendations(a) ==
    LET ui_errors == UiErrors(a)
        critical  == SelectSeq(a.accessibility_violations, IsCritical)
        hygiene   == a.security_hygiene
    IN  (IF a.console_errors # <<>>
         THEN <<RecommendedFix("Console Errors", "error",
                               Distinct(FirstOf(a.console_errors, 5)))>>
         ELSE <<>>)
        \o (IF a.network_failures # <<>>
            THEN <<RecommendedFix("Network/API", "error",
                                  Distinct(FirstOf(a.network_failures, 5)))>>
            ELSE <<>>)
        \o (IF ui_errors # <<>>
            THEN <<RecommendedFix("UI Flows", "error", PageUrls(FirstOf(ui_errors, 5)))>>
            ELSE <<>>)
        \o (IF hygiene.set /\ ~hygiene.https_ok
            THEN <<RecommendedFix("Security", "error", <<a.url>>)>>
            ELSE <<>>)
        \o (IF hygiene.set /\ hygiene.headers_missing # <<>>
            THEN <<RecommendedFix("Security", "warning", <<a.url>>)>>
            ELSE <<>>)
        \o (IF a.large_assets # <<>>
            THEN <<RecommendedFix("Performance", "warning", FirstOf(a.large_assets, 3))>>
            ELSE <<>>)
        \o (IF a.slow_endpoints # <<>>
            THEN <<RecommendedFix("Performance", "warning", FirstOf(a.slow_endpoints, 3))>>
            ELSE <<>>)
        \o (IF critical # <<>>
            THEN <<RecommendedFix("Accessibility", "warning",
                                  PageUrls(FirstOf(critical, 3)))>>
            ELSE <<>>)

\* ReportBuilder.build: the fields of the AuditReport computed from the findings
AuditReport(a) ==
    LET total_score == calculate_score(Len(a.console_errors), Len(a.network_failures),
                                       Len(UiErrors(a)), _count_security_issues(a),
                                       Len(a.accessibility_violations),
                                       Len(a.slow_endpoints))
    IN  [score |-> total_score,
         grade |-> get_grade(total_score),
         category_scores |-> _calculate_category_scores(a),
         recommended_fixes |-> _generate_recommendations(a)]

\* ReportBuilder(audit).build()
build ==
    /\ report = NoReport
    /\ report' = AuditReport(findings)
    /\ UNCHANGED findings
    /\ UNCHANGED <<runVars, storeVars, previewVars, loginVars, sessVars, loopVars, initVars, rateVars, pageVars, normVars, probeVars>>

NextReport == build

\* a builder for any of the audit records
InitBuilder ==
    /\ InitQuiet /\ InitPage /\ InitNormalize /\ InitProbe
    /\ findings \in Audits
    /\ report = NoReport

SpecReport == InitBuilder /\ [][NextReport]_vars

\* the counters that build() hands to calculate_score
Counters ==
    [console  |-> Len(findings.console_errors),
     network  |-> Len(findings.network_failures),
     ui_err   |-> Cardinality({k \in DOMAIN findings.ui_flows :
                                  findings.ui_flows[k].status = "error"}),
     security |-> IF ~findings.security_hygiene.set THEN 0
                  ELSE (IF findings.security_hygiene.https_ok THEN 0 ELSE 2)
                       + Len(findings.security_hygiene.headers_missing)
                       + Len(findings.security_hygiene.cookie_flags_issues),
     a11y     |-> Len(findings.accessibility_violations),
     slow     |-> Len(findings.slow_endpoints),
     large    |-> Len(findings.large_assets)]

\* C24: the overall score of a report is 100 minus the capped penalties of the
\* six counters and lies in 0..100; the grade is A from 90, B from 80, C from
\* 70, D from 60 and F below; a report without findings has score 100 and
\* grade A
ScoreOfCounters ==
    report # NoReport =>
        LET c == Counters
            penalties == Min(2 * c.console, 20) + Min(3 * c.network, 20)
                         + Min(4 * c.ui_err, 20) + Min(3 * c.security, 20)
                         + Min(c.a11y, 10) + Min(c.slow, 10)
        IN  /\ report.score = 100 - penalties
            /\ report.score \in 0..100
            /\ report.grade = "A" <=> report.score >= 90
            /\ report.grade = "B" <=> report.score \in 80..89
            /\ report.grade = "C" <=> report.score \in 70..79
            /\ report.grade = "D" <=> report.score \in 60..69
            /\ report.grade = "F" <=> report.score < 60
            /\ (penalties = 0 /\ c.large = 0) => report.score = 100 /\ report.grade = "A"

\* every penalty is past its cap: the score is 0 and the grade F
ScoreFloor ==
    /\ report # NoReport
    /\ report.score = 0 /\ report.grade = "F"
    /\ Counters.console > 10 /\ Counters.network > 6 /\ Counters.ui_err > 5
    /\ Counters.security > 6 /\ Counters.a11y > 10 /\ Counters.slow > 10

\* C25: the category scores of a report are max(0, 20 - 2*console),
\* max(0, 20 - 3*network), max(0, 20 - 4*ui_errors), max(0, 20 - 3*security),
\* max(0, 10 - (slow + large)) and max(0, 10 - violations), each from 0 to the
\* maximum of its category (20, 20, 20, 20, 10, 10); three console errors and
\* two network failures give 14 and 14, and with nothing else found the score
\* 88 and the grade B; a target without HTTPS with six headers missing and one
\* cookie issue has 0 for Security
CategoryScores ==
    report # NoReport =>
        LET c  == Counters
            cs == report.category_scores
            expected == << Max(0, 20 - 2 * c.console), Max(0, 20 - 3 * c.network),
                           Max(0, 20 - 4 * c.ui_err), Max(0, 20 - 3 * c.security),
                           Max(0, 10 - (c.slow + c.large)), Max(0, 10 - c.a11y) >>
            maxima == <<20, 20, 20, 20, 10, 10>>
            hygiene == findings.security_hygiene
        IN  /\ Len(cs) = 6
            /\ \A k \in 1..6 :
                 /\ cs[k].score = expected[k]
                 /\ cs[k].max_score = maxima[k]
                 /\ cs[k].score \in 0..cs[k].max_score
            /\ (c.console = 3 /\ c.network = 2) =>
                 /\ cs[1].score = 14 /\ cs[2].score = 14
                 /\ (c.ui_err = 0 /\ c.security = 0 /\ c.a11y = 0 /\ c.slow = 0)
                       => report.score = 88 /\ report.grade = "B"
            /\ (/\ hygiene.set /\ ~hygiene.https_ok
                /\ Len(hygiene.headers_missing) = 6
                /\ Len(hygiene.cookie_flags_issues) = 1) => cs[4].score = 0

\* the report of an audit that found three console errors, two network
\* failures and nothing else
ThreeConsoleTwoNetwork ==
    /\ report # NoReport
    /\ Counters = [console |-> 3, network |-> 2, ui_err |-> 0, security |-> 0,
                   a11y |-> 0, slow |-> 0, large |-> 0]
    /\ report.category_scores[1].score = 14
    /\ report.category_scores[2].score = 14
    /\ report.score = 88 /\ report.grade = "B"

\* the report of an audit of a target without HTTPS, with six headers missing
\* and one cookie issue
HttpTargetSixHeaders ==
    /\ report # NoReport
    /\ findings.security_hygiene.set /\ ~findings.security_hygiene.https_ok
    /\ Len(findings.security_hygiene.headers_missing) = 6
    /\ Len(findings.security_hygiene.cookie_flags_issues) = 1
    /\ report.category_scores[4].score = 0

\* the URLs of the findings of each category, in the order they were found
FindingUrls ==
    [console       |-> findings.console_errors,
     network       |-> findings.network_failures,
     ui_flows      |-> PageUrls(UiErrors(findings)),
     security      |-> [k \in 1..Counters.security |-> findings.url],
     performance   |-> findings.large_assets \o findings.slow_endpoints,
     accessibility |-> PageUrls(findings.accessibility_violations)]

CategoryName ==
    [console |-> "Console Errors", network |-> "Network/API", ui_flows |-> "UI Flows",
     security |-> "Security", performance |-> "Performance",
     accessibility |-> "Accessibility"]

\* C26: a report has one recommendation for each category that has a finding,
\* with the URLs of the first five findings of the category, and none for a
\* category without finding
OneFixPerCategory ==
    report # NoReport =>
        \A cat \in DOMAIN FindingUrls :
            LET fixes == {k \in DOMAIN report.recommended_fixes :
                             report.recommended_fixes[k].category = CategoryName[cat]}
                urls  == FindingUrls[cat]
            IN  IF urls = <<>> THEN fixes = {}
                ELSE /\ Cardinality(fixes) = 1
                     /\ \A k \in fixes :
                          Elements(report.recommended_fixes[k].affected_urls)
                              = Elements(FirstOf(urls, 5))

(***************************************************************************)
(* The status of a page: _check_initial_availability and _audit_page       *)
(***************************************************************************)
\* the audit of a target whose content is any of Contents
InitTarget ==
    /\ InitAudit(Targets) /\ InitServices
    /\ InitLoop /\ InitInitialize /\ InitRate /\ InitReport /\ InitVisit /\ InitLogin
    /\ InitPreview /\ InitStore /\ InitNormalize /\ InitProbe
    /\ target_content \in Contents

SpecBlank == InitTarget /\ [][Next]_vars

\* C27: when the target page renders fewer than 100 characters once stripped,
\* the UIFlowResult recorded for the target has status error and the notes
\* "Blank or nearly empty page", and a screenshot path when the option
\* screenshot_on_error is set and the screenshot could be written
BlankTargetFlagged ==
    (/\ is_blank(target_content)
     /\ audit.ui_flows # <<>>
     /\ audit.ui_flows[1].notes # <<"Failed to load">>)
        => /\ audit.ui_flows[1].page_url = audit.url
           /\ audit.ui_flows[1].status = "error"
           /\ audit.ui_flows[1].notes = <<"Blank or nearly empty page">>

\* the pages that _audit_page can be given
Visits == [content : Contents, status : HttpStatuses, screenshot_on_error : BOOLEAN]

\* _audit_page from page.content() to the screenshot test
ExaminePage ==
    /\ outcome = NoOutcome
    /\ LET f == PageStatus(visit.content, visit.status)
       IN  outcome' = [flow |-> f, screenshot |-> WantsScreenshot(f, visit)]
    /\ UNCHANGED <<target_content, visit>>
    /\ UNCHANGED <<runVars, storeVars, previewVars, loginVars, sessVars, loopVars, initVars, rateVars, reportVars, normVars, probeVars>>

NextPage == ExaminePage

\* _audit_page is given any of the pages
InitVisits ==
    /\ InitQuiet /\ InitReport /\ InitNormalize /\ InitProbe
    /\ target_content = PlainContent
    /\ visit \in Visits
    /\ outcome = NoOutcome

SpecPage == InitVisits /\ [][NextPage]_vars

\* C28: the status of an audited page is chosen by priority: fewer than 100
\* characters once stripped give error with the notes "Blank or nearly empty
\* page" whatever the response and the phrases; otherwise an error phrase
\* gives warning; otherwise a response of 400 or more gives error and any
\* other gives ok.  99 characters give error, 100 characters with "oops" give
\* warning, and a screenshot is asked for exactly when the status is not ok
\* and screenshot_on_error is set
StatusByPriority ==
    outcome # NoOutcome =>
        LET c == visit.content
            f == outcome.flow
            matched == c.phrase \in {"oops", "Forbidden"}
        IN  /\ c.stripped < 100 =>
                 f.status = "error" /\ f.notes = <<"Blank or nearly empty page">>
            /\ (c.stripped >= 100 /\ matched) => f.status = "warning"
            /\ (c.stripped >= 100 /\ ~matched) =>
                 f.status = IF visit.status >= 400 THEN "error" ELSE "ok"
            /\ c.stripped = 99 => f.status = "error"
            /\ (c.stripped = 100 /\ c.phrase = "oops") => f.status = "warning"
            /\ outcome.screenshot <=> (f.status # "ok" /\ visit.screenshot_on_error)

\* a page of 99 characters that says "oops" and came with HTTP 200: an error
\* for being blank, and a screenshot is asked for
NinetyNineWithOops ==
    /\ visit.content.stripped = 99 /\ visit.content.phrase = "oops"
    /\ visit.status = 200 /\ visit.screenshot_on_error
    /\ outcome.flow.status = "error"
    /\ outcome.flow.notes = <<"Blank or nearly empty page">>
    /\ outcome.screenshot

(***************************************************************************)
(* Claims about the login handlers                                         *)
(***************************************************************************)
\* the answer 200 of mark_logged_in for a session
MarkedOk(sid) ==
    reply = [op |-> "mark_logged_in", sid |-> sid, code |-> 200,
             detail |-> "Session authenticated"]

\* C29: when mark_logged_in answers ok for a session, mark_authenticated has
\* returned True for it and the session is in the table, authenticated
\* (is_authenticated set, status "authenticated")
OkMeansAuthenticated ==
    \A sid \in Sids :
        MarkedOk(sid) =>
            /\ sid \in marked
            /\ InTable(sid)
            /\ _sessions[sid].is_authenticated
            /\ _sessions[sid].status = "authenticated"

\* mark_logged_in answers ok for a session for which mark_authenticated never
\* returned True
OkWithoutMark == \E sid \in Sids : MarkedOk(sid) /\ sid \notin marked

(***************************************************************************)
(* The login contexts and pages of one session: open_login_page,           *)
(* save_storage_state and close_context, await by await.  The session is   *)
(* in the table and the browser is launched.                               *)
(***************************************************************************)
\* the call t goes on to its next await, or ends
Goes(t, op, at, ctx, pg) ==
    logins' = [logins EXCEPT ![t] = [op |-> op, pc |-> at, context |-> ctx, page |-> pg]]

Ends(t) == Goes(t, logins[t].op, "done", 0, 0)

loginFrame == <<runVars, storeVars, previewVars, sessVars, loopVars, initVars, rateVars, pureVars>>

\* open_login: get_context; without a context create_context is entered and
\* browser.new_context awaited, with one context.new_page is awaited
OpenLoginCall(t) ==
    /\ logins[t].pc = "idle"
    /\ IF login_context = 0
       THEN Goes(t, "open_login", "new_context", 0, 0)
       ELSE Goes(t, "open_login", "new_page", login_context, 0)
    /\ UNCHANGED <<login_context, login_page, made_contexts, made_pages>>
    /\ UNCHANGED loginFrame

\* browser.new_context resolves: self._contexts[session_id] = context, then
\* context.new_page is awaited
ContextCreated(t) ==
    /\ logins[t].pc = "new_context"
    /\ made_contexts' = Append(made_contexts, "open")
    /\ login_context' = Len(made_contexts) + 1
    /\ Goes(t, "open_login", "new_page", Len(made_contexts) + 1, 0)
    /\ UNCHANGED <<login_page, made_pages>>
    /\ UNCHANGED loginFrame

\* context.new_page resolves: a page, and page.goto is awaited; the error of
\* a closed context leaves open_login_page and the handler answers 500
PageCreated(t) ==
    /\ logins[t].pc = "new_page"
    /\ IF made_contexts[logins[t].context] = "closed"
       THEN /\ Ends(t)
            /\ UNCHANGED made_pages
       ELSE /\ made_pages' = Append(made_pages,
                                    [context |-> logins[t].context, state |-> "open"])
            /\ Goes(t, "open_login", "goto", logins[t].context, Len(made_pages) + 1)
    /\ UNCHANGED <<login_context, login_page, made_contexts>>
    /\ UNCHANGED loginFrame

\* page.goto resolves (its error is logged): self._pages[session_id] = page
Navigated(t) ==
    /\ logins[t].pc = "goto"
    /\ login_page' = logins[t].page
    /\ Ends(t)
    /\ UNCHANGED <<login_context, made_contexts, made_pages>>
    /\ UNCHANGED loginFrame

\* mark_logged_in: save_storage_state raises without a context, with one
\* context.storage_state is awaited
MarkLoggedInCall(t) ==
    /\ logins[t].pc = "idle"
    /\ IF login_context = 0
       THEN Goes(t, "mark_logged_in", "done", 0, 0)
       ELSE Goes(t, "mark_logged_in", "saving", login_context, 0)
    /\ UNCHANGED <<login_context, login_page, made_contexts, made_pages>>
    /\ UNCHANGED loginFrame

\* close_context up to its first await: both entries are popped; page.close
\* is awaited for a page that is not closed, else context.close for a context
close_context(t, op) ==
    /\ login_page' = 0
    /\ login_context' = 0
    /\ IF login_page # 0 /\ made_pages[login_page].state = "open"
       THEN Goes(t, op, "page_close", login_context, login_page)
       ELSE IF login_context # 0
       THEN Goes(t, op, "context_close", login_context, 0)
       ELSE Goes(t, op, "done", 0, 0)

\* context.storage_state resolves: on a closed context it raised, the save
\* returns False and the handler answers 500; else close_context is entered
Saved(t) ==
    /\ logins[t].pc = "saving"
    /\ IF made_contexts[logins[t].context] = "closed"
       THEN /\ Ends(t)
            /\ UNCHANGED <<login_context, login_page>>
       ELSE close_context(t, "mark_logged_in")
    /\ UNCHANGED <<made_contexts, made_pages>>
    /\ UNCHANGED loginFrame

\* close_context called on its own (shutdown calls it for every context)
CloseContextCall(t) ==
    /\ logins[t].pc = "idle"
    /\ close_context(t, "close_context")
    /\ UNCHANGED <<made_contexts, made_pages>>
    /\ UNCHANGED loginFrame

\* page.close resolves; context.close is awaited for a context
PageClosed(t) ==
    /\ logins[t].pc = "page_close"
    /\ made_pages' = [made_pages EXCEPT ![logins[t].page].state = "closed"]
    /\ IF logins[t].context # 0
       THEN Goes(t, logins[t].op, "context_close", logins[t].context, 0)
       ELSE Ends(t)
    /\ UNCHANGED <<login_context, login_page, made_contexts>>
    /\ UNCHANGED loginFrame

\* context.close resolves: the context and the pages in it are closed
ContextClosed(t) ==
    /\ logins[t].pc = "context_close"
    /\ made_contexts' = [made_contexts EXCEPT ![logins[t].context] = "closed"]
    /\ made_pages' = [p \in DOMAIN made_pages |->
                         IF made_pages[p].context = logins[t].context
                         THEN [made_pages[p] EXCEPT !.state = "closed"]
                         ELSE made_pages[p]]
    /\ Ends(t)
    /\ UNCHANGED <<login_context, login_page>>
    /\ UNCHANGED loginFrame

NextLogin ==
    \E t \in LoginCalls :
        \/ OpenLoginCall(t)
        \/ ContextCreated(t)
        \/ PageCreated(t)
        \/ Navigated(t)
        \/ MarkLoggedInCall(t)
        \/ Saved(t)
        \/ CloseContextCall(t)
        \/ PageClosed(t)
        \/ ContextClosed(t)

SpecLogin == InitSessions /\ [][NextLogin]_vars

\* no call of a login handler is in flight
NoLoginInFlight == \A t \in LoginCalls : logins[t].pc \in {"idle", "done"}

\* C30: when no call of open-login, mark-logged-in or close_context is in
\* flight for a session, every login context and every login page created
\* for it is the one the registry holds for the session, or is closed; so at
\* most one login context of the session is open
CreatedIsHeldOrClosed ==
    NoLoginInFlight =>
        /\ \A c \in DOMAIN made_contexts :
             made_contexts[c] = "open" => login_context = c
        /\ \A p \in DOMAIN made_pages :
             made_pages[p].state = "open" => login_page = p
        /\ Cardinality({c \in DOMAIN made_contexts : made_contexts[c] = "open"}) <= 1

\* two open-login calls overlapped and no call is in flight: two login
\* contexts of the session are open, the registry holds the second
TwoLoginContexts ==
    /\ NoLoginInFlight
    /\ Len(made_contexts) = 2
    /\ made_contexts[1] = "open" /\ made_contexts[2] = "open"
    /\ login_context = 2

(***************************************************************************)
(* Claims about the record of a finished audit and the preview             *)
(***************************************************************************)
\* the findings that the listeners collect
Collected(a) ==
    <<a.console_errors, a.network_failures, a.slow_endpoints, a.large_assets,
      a.total_requests>>

\* C31: once the status of the audit is done, the findings collected by the
\* listeners (console_errors, network_failures, slow_endpoints, large_assets,
\* total_requests) no longer change; a response task created before the
\* completion appends nothing afterwards
DoneFindingsFrozen ==
    [][audit.status = "done" => Collected(audit') = Collected(audit)]_vars

(***************************************************************************)
(* _capture_live_preview: the calls awaited by run() and the tasks that    *)
(* the framenavigated and load listeners create, await by await            *)
(***************************************************************************)
MaxWall == 3 * Second

previewFrame == <<runVars, storeVars, sessVars, loopVars, initVars, rateVars, pureVars, loginVars>>

ThrottledWithinHalf(now, last) == 2 * (now - last) < Second

\* if now - self._last_preview_capture_s < 1.0: return
Throttled(now, last) == now - last < Second

\* time passes
WallTick ==
    /\ wall < MaxWall
    /\ wall' = wall + 1
    /\ UNCHANGED <<_last_preview_capture_s, preview_updated_at, preview_page, captures,
                   shots>>
    /\ UNCHANGED previewFrame

\* the page is closed (the finally clause of run())
PreviewPageClosed ==
    /\ preview_page = "open"
    /\ preview_page' = "closed"
    /\ UNCHANGED <<wall, _last_preview_capture_s, preview_updated_at, captures, shots>>
    /\ UNCHANGED previewFrame

\* _capture_live_preview up to its await: the page test, the throttle, the
\* slot taken, page.screenshot awaited
CaptureStart(t) ==
    /\ captures[t].pc = "idle"
    /\ IF preview_page # "open"
       THEN /\ captures' = [captures EXCEPT ![t] = [pc |-> "no_page", now |-> 0]]
            /\ UNCHANGED <<_last_preview_capture_s, shots>>
       ELSE IF Throttled(wall, _last_preview_capture_s)
       THEN /\ captures' = [captures EXCEPT ![t] = [pc |-> "throttled", now |-> wall]]
            /\ UNCHANGED <<_last_preview_capture_s, shots>>
       ELSE /\ _last_preview_capture_s' = wall
            /\ shots' = Append(shots, wall)
            /\ captures' = [captures EXCEPT ![t] = [pc |-> "screenshot", now |-> wall]]
    /\ UNCHANGED <<wall, preview_updated_at, preview_page>>
    /\ UNCHANGED previewFrame

\* page.screenshot resolves: the path and preview_updated_at = now
CaptureDone(t) ==
    /\ captures[t].pc = "screenshot"
    /\ preview_page = "open"
    /\ preview_updated_at' = captures[t].now
    /\ captures' = [captures EXCEPT ![t].pc = "captured"]
    /\ UNCHANGED <<wall, _last_preview_capture_s, preview_page, shots>>
    /\ UNCHANGED previewFrame

\* page.screenshot raises: "except Exception: return"
CaptureFailed(t) ==
    /\ captures[t].pc = "screenshot"
    /\ captures' = [captures EXCEPT ![t].pc = "failed"]
    /\ UNCHANGED <<wall, _last_preview_capture_s, preview_updated_at, preview_page, shots>>
    /\ UNCHANGED previewFrame

NextPreview ==
    \/ WallTick
    \/ PreviewPageClosed
    \/ \E t \in CaptureCalls : CaptureStart(t) \/ CaptureDone(t) \/ CaptureFailed(t)

SpecPreview == InitSessions /\ [][NextPreview]_vars

\* C32: any two calls that reached page.screenshot have trigger times (their
\* local now) at least one second apart, however the calls interleave; a call
\* whose screenshot fails returns without an exception and the slot it took
\* stays taken: the next call that reaches the screenshot is a second later
OneCapturePerSecond ==
    /\ [](\A j, k \in DOMAIN shots : j < k => shots[k] - shots[j] >= Second)
    /\ [](\A t \in CaptureCalls :
            captures[t].pc \in {"idle", "no_page", "throttled", "screenshot",
                                "captured", "failed"})
    /\ [][\A t \in CaptureCalls :
            (captures[t].pc = "screenshot" /\ captures'[t].pc = "failed")
                => /\ _last_preview_capture_s' = _last_preview_capture_s
                   /\ _last_preview_capture_s' >= captures[t].now
                   /\ preview_updated_at' = preview_updated_at
       ]_vars

\* a call whose screenshot failed, a call throttled in the same second, and a
\* call a second later that reached the screenshot while the page is open
SlotConsumedByFailure ==
    \E a, b, c \in CaptureCalls :
        /\ captures[a].pc = "failed"
        /\ captures[b].pc = "throttled" /\ captures[b].now - captures[a].now < Second
        /\ captures[c].pc \in {"screenshot", "captured"}
        /\ captures[c].now - captures[a].now >= Second

\* C33: audit.preview_updated_at never decreases, however the capture calls
\* interleave
PreviewTimestampMonotone ==
    [][preview_updated_at' >= preview_updated_at]_vars

(***************************************************************************)
(* Claims about the listeners and the progress                             *)
(***************************************************************************)
\* on_response reads self.page.url when it records a failure or a large asset
ReadsPageUrl(r) == r.status >= 400 \/ r.content_length > 500000

\* C34: a listener reads from the page only when the page is present and not
\* closed: the task of a response event that reads self.page.url runs on an
\* open page
ListenersGuardClosedPage ==
    [][(/\ tasks # <<>> /\ tasks' = Tail(tasks)
        /\ Head(tasks).kind = "response"
        /\ ReadsPageUrl(Head(tasks).response)) => page = "open"]_vars

(***************************************************************************)
(* The audit store: create_audit, the findings of its audits and           *)
(* update_progress called with any audit id                                *)
(***************************************************************************)
\* the id that create_audit issues and an id that it never issued
KnownId == "a1"
AuditIds == {KnownId, "a2"}

\* stage and percent of the calls
ProgressCalls == {<<"starting", 5>>, <<"crawling", 20>>, <<"complete", 100>>}

storeFrame == <<runVars, sessVars, loopVars, initVars, rateVars, pureVars, loginVars,
                previewVars>>

\* AuditManager.create_audit: the AuditState of a new audit, stored under its id
CreateAudit ==
    /\ KnownId \notin DOMAIN audit_records
    /\ audit_records' =
         [id \in {KnownId} |->
             [visited_urls |-> {}, console_errors |-> 0, network_failures |-> 0,
              progress |-> AuditProgress("initializing", 0, <<>>, 0, 0, <<>>)]]
    /\ progress_call' = NoCall
    /\ UNCHANGED storeFrame

\* the runner or a listener adds a visited URL, a console error or a network failure
Collects ==
    /\ \E id \in DOMAIN audit_records :
         LET a == audit_records[id]
         IN  \/ /\ Cardinality(a.visited_urls) < MaxFound
                /\ audit_records' = [audit_records EXCEPT ![id].visited_urls =
                                        @ \cup {Cardinality(a.visited_urls) + 1}]
             \/ /\ a.console_errors < MaxFound
                /\ audit_records' = [audit_records EXCEPT ![id].console_errors = @ + 1]
             \/ /\ a.network_failures < MaxFound
                /\ audit_records' = [audit_records EXCEPT ![id].network_failures = @ + 1]
    /\ progress_call' = NoCall
    /\ UNCHANGED storeFrame

\* audit_manager.update_progress(audit_id, stage, percent): with self._lock,
\* audit = self._audits.get(audit_id); if audit: audit.progress = AuditProgress(...)
UpdateProgress ==
    /\ \E audit_id \in AuditIds, call \in ProgressCalls :
         /\ audit_records' =
              IF audit_id \in DOMAIN audit_records
              THEN [audit_records EXCEPT ![audit_id] =
                       update_progress(@, call[1], call[2], <<>>, <<>>)]
              ELSE audit_records
         /\ progress_call' = [audit_id |-> audit_id, stage |-> call[1], percent |-> call[2]]
    /\ UNCHANGED storeFrame

NextStore == CreateAudit \/ Collects \/ UpdateProgress

SpecStore == InitSessions /\ [][NextStore]_vars

\* C35: after a call of update_progress for a stored audit, the progress of
\* the audit has the stage and the percent of the call, pages_visited equal to
\* the number of visited URLs and errors_found equal to the number of console
\* errors plus network failures as of the call; the progress of an audit
\* changes in no other step, so a reader sees the fields of one call only;
\* a call for an id that is not in the store changes nothing
ProgressReplacedWhole ==
    /\ [](progress_call.audit_id \in DOMAIN audit_records =>
            LET a == audit_records[progress_call.audit_id]
            IN  /\ a.progress.stage = progress_call.stage
                /\ a.progress.percent = progress_call.percent
                /\ a.progress.pages_visited = Cardinality(a.visited_urls)
                /\ a.progress.errors_found = a.console_errors + a.network_failures)
    /\ [][progress_call' = NoCall =>
            \A id \in DOMAIN audit_records :
                audit_records'[id].progress = audit_records[id].progress]_vars
    /\ [][(progress_call' # NoCall /\ progress_call'.audit_id \notin DOMAIN audit_records)
            => audit_records' = audit_records]_vars

\* the progress of an audit that visited a page and collected an error after
\* its previous update was replaced, and a call for an unknown id followed
ProgressOfLaterCall ==
    /\ progress_call.audit_id \notin DOMAIN audit_records /\ progress_call # NoCall
    /\ KnownId \in DOMAIN audit_records
    /\ audit_records[KnownId].progress.stage = "crawling"
    /\ audit_records[KnownId].progress.pages_visited = 1
    /\ audit_records[KnownId].progress.errors_found = 2
    /\ Cardinality(audit_records[KnownId].visited_urls) = 2

\* C36: in every state in which another task can run, the status and the
\* progress of the audit agree: with status "done" the stage is "complete",
\* the percent is 100 and pages_visited is the number of visited URLs; with
\* status "error" the stage is "error" and the percent is 0; with status
\* "queued" or "running" the stage is neither "complete" nor "error"
StatusAgreesWithProgress ==
    /\ audit.status = "done" =>
          /\ audit.progress.stage = "complete"
          /\ audit.progress.percent = 100
          /\ audit.progress.pages_visited = Cardinality(audit.visited_urls)
    /\ audit.status = "error" =>
          /\ audit.progress.stage = "error"
          /\ audit.progress.percent = 0
    /\ audit.status \in {"queued", "running"} =>
          audit.progress.stage \notin {"complete", "error"}

\* the audit is done with two pages visited while run() awaits page.close()
\* and a task of a response waits for its turn
DoneReadableWithTwoPages ==
    /\ audit.status = "done"
    /\ pc = "close_page"
    /\ tasks # <<>>
    /\ Cardinality(audit.visited_urls) = 2

(***************************************************************************)
(* The two URL normalisations applied to one string                        *)
(***************************************************************************)
\* the URL strings: with or without a scheme and a host, paths that end in
\* no, one or two slashes, a query, a fragment
Links ==
    { sch \o net \o path \o qry \o frag :
        sch  \in {<<>>, <<"https", ":">>},
        net  \in {<<>>, <<"/", "/">>, <<"/", "/", "h">>},
        path \in {<<>>, <<"/">>, <<"/", "a">>, <<"/", "a", "/">>, <<"/", "a", "/", "/">>,
                  <<"a">>},
        qry  \in {<<>>, <<"?">>, <<"?", "q">>, <<"?", "q", "/">>},
        frag \in {<<>>, <<"#", "f">>} }

\* normalize_url(link), and _discover_links' clean_url of the same link
Normalize ==
    /\ normalized = NoUrls
    /\ normalized' = [normalize_url |-> normalize_url(link),
                      clean_url     |-> CleanUrl(urlparse(link))]
    /\ UNCHANGED <<runVars, storeVars, previewVars, loginVars, sessVars, loopVars, initVars, rateVars, reportVars, pageVars, probeVars, link>>

NextNormalize == Normalize

InitLinks ==
    /\ InitQuiet /\ InitReport /\ InitPage /\ InitProbe
    /\ link \in Links
    /\ normalized = NoUrls

SpecNormalize == InitLinks /\ [][NextNormalize]_vars

\* C37: URL normalisation is idempotent: normalize_url of a result of
\* normalize_url is that result, and the crawl's scheme://netloc/path of a
\* result of itself is that result, for every URL string, those whose path
\* ends in more than one slash and those with no scheme or no host included
UrlNormalizationIdempotent ==
    normalized # NoUrls =>
        /\ normalize_url(normalized.normalize_url) = normalized.normalize_url
        /\ CleanUrl(urlparse(normalized.clean_url)) = normalized.clean_url

(***************************************************************************)
(* _probe_safe_interactions: the candidates collected in the page, the     *)
(* selection of the actions and the clicks                                 *)
(***************************************************************************)
\* _probe_safe_interactions(max_actions=3)
max_actions == 3

\* .slice(0, 60)
MaxCandidates == 60

\* the words of UNSAFE_PATTERNS; "sign\s*out" is the two words or the one
UNSAFE_PATTERNS ==
    {"delete", "remove", "logout", "signout", "pay", "submit", "confirm", "purchase",
     "cancel", "destroy", "clear", "reset"}

\* UNSAFE_REGEX.search(text): a word of the text is one of the patterns
unsafe(text) ==
    \/ \E k \in 1..Len(text) : Lower(text[k]) \in UNSAFE_PATTERNS
    \/ \E k \in 1..(Len(text) - 1) : Lower(text[k]) = "sign" /\ Lower(text[k + 1]) = "out"

SameSite  == <<"https", ":", "/", "/", "h", "/", "a">>
OtherSite == <<"https", ":", "/", "/", "x", "/", "a">>

Element(tag, role, href, type, in_form, visible, text) ==
    [tag |-> tag, role |-> role, href |-> href, type |-> type, in_form |-> in_form,
     visible |-> visible, text |-> text]

\* the elements a page can hold, in document order: their text is a sequence
\* of words and their href is what a.href gives (an absolute URL)
Elements12 ==
    << Element("a", "", SameSite, "", FALSE, TRUE, <<"Home">>),
       Element("a", "", SameSite \o <<"/", "b">>, "", FALSE, TRUE, <<>>),
       Element("button", "", <<>>, "", TRUE, TRUE, <<"Menu">>),
       Element("button", "", <<>>, "", FALSE, TRUE, <<"Menu">>),
       Element("div", "button", <<>>, "", FALSE, TRUE, <<"Open">>),
       Element("button", "", <<>>, "", FALSE, TRUE, <<"Delete", "account">>),
       Element("button", "", <<>>, "submit", FALSE, TRUE, <<"Go">>),
       Element("button", "", <<>>, "button", TRUE, TRUE, <<"Search">>),
       Element("a", "", <<"mailto", ":", "m">>, "", FALSE, TRUE, <<"Mail">>),
       Element("a", "", OtherSite, "", FALSE, TRUE, <<"Docs">>),
       Element("a", "button", OtherSite, "", FALSE, TRUE, <<"Partner">>),
       Element("button", "", <<>>, "", FALSE, FALSE, <<"Hidden">>) >>

\* the pages: any of the elements, kept in document order
Doms ==
    { LET idx == SelectSeq([k \in 1..Len(Elements12) |-> k], LAMBDA k : k \in chosen)
      IN  [j \in 1..Len(idx) |-> Elements12[idx[j]]] : chosen \in SUBSET (1..Len(Elements12)) }

\* document.querySelectorAll('a[href]') and ('button, [role="button"]')
Queried(el, kind) ==
    IF kind = "link" THEN el.tag = "a" /\ el.href # <<>>
    ELSE el.tag = "button" \/ el.role = "button"

\* pushEl(el, kind): the record of a visible element; el is the position of
\* the element in the page, which the record of the code does not hold
pushEl(d, k, kind) ==
    [kind |-> kind, text |-> d[k].text,
     href |-> IF kind = "link" THEN d[k].href ELSE <<>>,
     type |-> IF kind = "button" THEN d[k].type ELSE "",
     inForm |-> d[k].in_form, el |-> k]

Pushed(d, kind) ==
    LET idx == SelectSeq([k \in 1..Len(d) |-> k],
                         LAMBDA k : Queried(d[k], kind) /\ d[k].visible)
    IN  [j \in 1..Len(idx) |-> pushEl(d, idx[j], kind)]

\* the links, then the buttons, de-duplicated by kind|text|href, the first 60
Candidates(d) ==
    LET out  == Pushed(d, "link") \o Pushed(d, "button")
        Key(x) == <<x.kind, x.text, x.href>>
        idx  == SelectSeq([k \in 1..Len(out) |-> k],
                          LAMBDA k : \A j \in 1..(k - 1) : Key(out[j]) # Key(out[k]))
        kept == [j \in 1..Len(idx) |-> out[idx[j]]]
    IN  SubSeq(kept, 1, Min(MaxCandidates, Len(kept)))

\* href.startswith(("mailto:", "tel:", "javascript:"))
StartsWithUnsafeScheme(href) ==
    Len(href) >= 2 /\ href[1] \in {"mailto", "tel", "javascript"} /\ href[2] = ":"

\* the tests of the selection loop: FALSE where the loop continues
Passes(c, domain) ==
    /\ ~(c.text = <<>> /\ c.href = <<>>)
    /\ ~unsafe(c.text)
    /\ ~c.inForm
    /\ ~(c.kind = "button" /\ c.type \in {"submit", "reset"})
    /\ c.kind = "link" =>
          /\ ~StartsWithUnsafeScheme(c.href)
          /\ ~(urlparse(c.href).netloc # <<>> /\ urlparse(c.href).netloc # domain)

\* the loop over the candidates: it ends when max_actions of them were appended
Actions(d, domain) ==
    LET passing == SelectSeq(Candidates(d), LAMBDA c : Passes(c, domain))
    IN  SubSeq(passing, 1, Min(max_actions, Len(passing)))

\* _audit_page: the probe when check_ui_flows is set; the click loop makes a
\* click for every action until a click raises or the page is closed
ProbePage ==
    /\ probe = NoProbe
    /\ IF check_ui_flows
       THEN LET actions == Actions(dom, base_domain)
            IN  \E clicks \in 0..Len(actions) :
                    probe' = [ran |-> TRUE, actions |-> actions, clicks |-> clicks]
       ELSE probe' = [ran |-> FALSE, actions |-> <<>>, clicks |-> 0]
    /\ UNCHANGED <<runVars, storeVars, previewVars, loginVars, sessVars, loopVars, initVars, rateVars, reportVars, pageVars, normVars, dom, check_ui_flows>>

NextProbe == ProbePage

InitDoms ==
    /\ InitQuiet /\ InitReport /\ InitPage /\ InitNormalize
    /\ dom \in Doms
    /\ check_ui_flows \in BOOLEAN
    /\ probe = NoProbe

SpecProbe == InitDoms /\ [][NextProbe]_vars

\* C38: the probe of a page makes at most 3 clicks and selects no element
\* whose text has a destructive verb, none inside a form, no button of type
\* submit or reset, no mailto:, tel: or javascript: link and no link to
\* another domain; with check_ui_flows false it makes no click
ProbeSelectsSafe ==
    probe # NoProbe =>
        /\ probe.clicks <= 3
        /\ ~check_ui_flows => probe.clicks = 0
        /\ \A k \in 1..Len(probe.actions) :
              LET el == dom[probe.actions[k].el]
              IN  /\ ~unsafe(el.text)
                  /\ ~el.in_form
                  /\ ~(el.tag = "button" /\ el.type \in {"submit", "reset"})
                  /\ ~StartsWithUnsafeScheme(el.href)
                  /\ ~(urlparse(el.href).netloc # <<>>
                         /\ urlparse(el.href).netloc # base_domain)

\* the sum of the six category scores of the report
CategoryTotal ==
    report.category_scores[1].score + report.category_scores[2].score
    + report.category_scores[3].score + report.category_scores[4].score
    + report.category_scores[5].score + report.category_scores[6].score

\* C39: for every tuple of finding counts the overall score of the report is
\* at least the sum of its six category scores, and the two are equal exactly
\* when min(slow + large, 10) = min(slow, 10): large assets lower the
\* Performance category and never the overall score
OverallAtLeastCategories ==
    report # NoReport =>
        LET c == Counters
        IN  /\ Len(report.category_scores) = 6
            /\ report.score >= CategoryTotal
            /\ report.score = CategoryTotal <=> Min(c.slow + c.large, 10) = Min(c.slow, 10)
            /\ report.score = calculate_score(c.console, c.network, c.ui_err, c.security,
                                              c.a11y, c.slow)

\* one slow endpoint and four large assets: Performance is 5 of 10 and the
\* overall score, 99, is 4 above the sum of the categories
LargeAssetsLowerPerformanceOnly ==
    /\ report # NoReport
    /\ Counters = [console |-> 0, network |-> 0, ui_err |-> 0, security |-> 0,
                   a11y |-> 0, slow |-> 1, large |-> 4]
    /\ report.category_scores[5].score = 5
    /\ report.score = 99
    /\ CategoryTotal = 95

(***************************************************************************)
(* The rate limiter with the callers of get_remaining                      *)
(***************************************************************************)
\* get_remaining(ip): the old admissions of the IP are dropped, the room left
\* is returned
get_remaining ==
    /\ \E ip \in Ips :
         LET kept == Kept(requests[ip], time)
         IN  /\ requests' = [requests EXCEPT ![ip] = kept]
             /\ remaining' = [ip |-> ip, left |-> Max(0, Limit - Len(kept))]
    /\ verdict' = NoVerdict
    /\ UNCHANGED time
    /\ UNCHANGED <<runVars, storeVars, previewVars, loginVars, sessVars, loopVars, initVars, pureVars>>

NextLimiter == is_allowed \/ get_remaining \/ Advance

SpecLimiter == InitSessions /\ [][NextLimiter]_vars

\* is_allowed(ip) would admit a request made at the instant at
WouldAdmit(reqs, ip, at) == Len(Kept(reqs[ip], at)) < Limit

\* the instant at which a slot of a full list reopens: a minute after the
\* earliest admission that is still in the window
Reopens(reqs, ip, at) ==
    IF Kept(reqs[ip], at) = <<>> THEN at ELSE Kept(reqs[ip], at)[1] + Window

\* C40: after any sequence of is_allowed and get_remaining calls no IP has
\* more than Limit admissions stored; a rejected request appends nothing and
\* leaves the instant at which a slot reopens where it was; a call for one IP
\* leaves the admissions of every other IP, and what is_allowed and
\* get_remaining would answer them, unchanged
LimiterBoundedAndIsolated ==
    /\ [](\A ip \in Ips : Len(requests[ip]) <= Limit)
    /\ [][(time' = time /\ verdict' # NoVerdict /\ ~verdict'.allowed) =>
            LET ip == verdict'.ip
            IN  /\ requests'[ip] = Kept(requests[ip], time)
                /\ Len(requests'[ip]) <= Len(requests[ip])
                /\ Reopens(requests', ip, time) = Reopens(requests, ip, time)]_vars
    /\ [][time' = time =>
            \A ip \in Ips :
                (ip # verdict'.ip /\ ip # remaining'.ip) =>
                    /\ requests'[ip] = requests[ip]
                    /\ WouldAdmit(requests', ip, time) = WouldAdmit(requests, ip, time)]_vars
    /\ [](remaining # NoRemaining =>
            remaining.left = Limit - Len(requests[remaining.ip]))

\* a request of an IP whose list is full was rejected while the list of the
\* other IP, which get_remaining had emptied, has room
RejectedBesideEmptiedIp ==
    \E ip \in Ips, other \in Ips :
        /\ other # ip
        /\ verdict.ip = ip /\ ~verdict.allowed
        /\ Len(requests[ip]) = Limit
        /\ requests[other] = <<>>
        /\ time >= Window

====
